---- MODULE Spec2Model ----
(***************************************************************************)
(* Model of the project structure analyzer                                 *)
(* (codebase-explorer/scripts/analyze_structure.py): the tree builder      *)
(* analyze_directory, the aggregator calculate_stats and the run of main   *)
(* over a file system, including the artifact main writes into the root.   *)
(***************************************************************************)
EXTENDS Integers, Sequences, FiniteSets, TLC

\* The names used by the file systems of the model.
N_proj == <<112,114,111,106>>   \* "proj"
N_dotconfig == <<46,99,111,110,102,105,103>>   \* ".config"
N_build == <<98,117,105,108,100>>   \* "build"
N_src == <<115,114,99>>   \* "src"
N_a_py == <<97,46,112,121>>   \* "a.py"
N_b_py == <<98,46,112,121>>   \* "b.py"
N_README_md == <<82,69,65,68,77,69,46,109,100>>   \* "README.md"
N_node_modules == <<110,111,100,101,95,109,111,100,117,108,101,115>>   \* "node_modules"
N_x_js == <<120,46,106,115>>   \* "x.js"
N_dotgit == <<46,103,105,116>>   \* ".git"
N_dothid == <<46,104,105,100>>   \* ".hid"
N_h_py == <<104,46,112,121>>   \* "h.py"
N_dotenv_json == <<46,101,110,118,46,106,115,111,110>>   \* ".env.json"
N_loop == <<108,111,111,112>>   \* "loop"
N_artifact == <<46,99,111,100,101,98,97,115,101,45,115,116,114,117,99,116,117,114,101,46,106,115,111,110>>   \* ".codebase-structure.json"
N_py == <<112,121>>   \* "py"
N_Z_PY == <<90,46,80,89>>   \* "Z.PY"

\* A name is the sequence of its code points, so that the prefix test, the suffix,
\* lower-casing and Python's string order are computed and not assumed.
\* KEY_DIRECTORIES: directory name -> description.
KEY_DIRECTORIES ==
       (<<115,114,99>> :> "Source code")   \* src
    @@ (<<108,105,98>> :> "Library code")   \* lib
    @@ (<<97,112,112>> :> "Application code")   \* app
    @@ (<<99,111,109,112,111,110,101,110,116,115>> :> "UI components")   \* components
    @@ (<<112,97,103,101,115>> :> "Page components")   \* pages
    @@ (<<118,105,101,119,115>> :> "View components")   \* views
    @@ (<<97,112,105>> :> "API endpoints")   \* api
    @@ (<<114,111,117,116,101,115>> :> "Route definitions")   \* routes
    @@ (<<99,111,110,116,114,111,108,108,101,114,115>> :> "Controller logic")   \* controllers
    @@ (<<115,101,114,118,105,99,101,115>> :> "Business logic services")   \* services
    @@ (<<109,111,100,101,108,115>> :> "Data models")   \* models
    @@ (<<117,116,105,108,115>> :> "Utility functions")   \* utils
    @@ (<<104,101,108,112,101,114,115>> :> "Helper functions")   \* helpers
    @@ (<<99,111,110,102,105,103>> :> "Configuration files")   \* config
    @@ (<<116,101,115,116,115>> :> "Test files")   \* tests
    @@ (<<116,101,115,116>> :> "Test files")   \* test
    @@ (<<95,95,116,101,115,116,115,95,95>> :> "Test files")   \* __tests__
    @@ (<<115,112,101,99>> :> "Test specifications")   \* spec
    @@ (<<100,111,99,115>> :> "Documentation")   \* docs
    @@ (<<97,115,115,101,116,115>> :> "Static assets")   \* assets
    @@ (<<112,117,98,108,105,99>> :> "Public files")   \* public
    @@ (<<115,116,97,116,105,99>> :> "Static files")   \* static
    @@ (<<115,116,121,108,101,115>> :> "Stylesheets")   \* styles
    @@ (<<115,99,114,105,112,116,115>> :> "Build/deploy scripts")   \* scripts
    @@ (<<100,105,115,116>> :> "Distribution files")   \* dist
    @@ (<<98,117,105,108,100>> :> "Build output")   \* build
    @@ (<<110,111,100,101,95,109,111,100,117,108,101,115>> :> "Node dependencies")   \* node_modules
    @@ (<<46,103,105,116>> :> "Git version control")   \* .git
    @@ (<<118,101,110,100,111,114>> :> "Third-party dependencies")   \* vendor

\* CODE_EXTENSIONS: the extensions whose files have their lines counted.
CODE_EXTENSIONS ==
    { <<112,121>>  (* py *),
      <<106,115>>  (* js *),
      <<116,115>>  (* ts *),
      <<106,115,120>>  (* jsx *),
      <<116,115,120>>  (* tsx *),
      <<118,117,101>>  (* vue *),
      <<115,118,101,108,116,101>>  (* svelte *),
      <<106,97,118,97>>  (* java *),
      <<107,116>>  (* kt *),
      <<107,116,115>>  (* kts *),
      <<103,111>>  (* go *),
      <<114,115>>  (* rs *),
      <<99>>  (* c *),
      <<99,112,112>>  (* cpp *),
      <<104>>  (* h *),
      <<104,112,112>>  (* hpp *),
      <<99,115>>  (* cs *),
      <<115,119,105,102,116>>  (* swift *),
      <<114,98>>  (* rb *),
      <<112,104,112>>  (* php *),
      <<115,99,97,108,97>>  (* scala *),
      <<100,97,114,116>>  (* dart *),
      <<104,116,109,108>>  (* html *),
      <<99,115,115>>  (* css *),
      <<115,99,115,115>>  (* scss *),
      <<115,97,115,115>>  (* sass *),
      <<108,101,115,115>>  (* less *),
      <<106,115,111,110>>  (* json *),
      <<121,97,109,108>>  (* yaml *),
      <<121,109,108>>  (* yml *),
      <<120,109,108>>  (* xml *),
      <<116,111,109,108>>  (* toml *),
      <<105,110,105>>  (* ini *) }

\* skip_dirs: the generated directories that are shown but not entered.
skip_dirs ==
    { <<110,111,100,101,95,109,111,100,117,108,101,115>>  (* node_modules *),
      <<95,95,112,121,99,97,99,104,101,95,95>>  (* __pycache__ *),
      <<46,103,105,116>>  (* .git *),
      <<100,105,115,116>>  (* dist *),
      <<98,117,105,108,100>>  (* build *),
      <<46,110,101,120,116>>  (* .next *),
      <<46,110,117,120,116>>  (* .nuxt *) }


----------------------------------------------------------------------------
\* Bounds of the model.

\* The largest --max-depth value tried.
MaxDepthBound == 3
\* The number of consecutive invocations of main on the same root.
MaxRuns == 2

\* main's default for max_depth.
DefaultMaxDepth == 3

----------------------------------------------------------------------------
\* Python values.

None == [type |-> "None"]
SKIPPED == [type |-> "str", value |-> "<skipped>"]
DENIED == [type |-> "str", value |-> "<permission denied>"]
\* isinstance(child, str)
IsStr(v) == v.type = "str"

Last(s) == s[Len(s)]
Front(s) == SubSeq(s, 1, Len(s) - 1)

\* str.startswith('.')
StartsWithDot(name) == Len(name) > 0 /\ name[1] = 46

\* str.lower(), on ASCII names
LowerChar(c) == IF c \in 65..90 THEN c + 32 ELSE c
Lower(name) == [i \in 1..Len(name) |-> LowerChar(name[i])]

\* Python's order on strings: lexicographic on code points.
StrLess(s, t) ==
    \E i \in 1..(Len(s) + 1) :
        /\ \A j \in 1..(i - 1) : j <= Len(t) /\ s[j] = t[j]
        /\ i <= Len(t)
        /\ (i > Len(s) \/ s[i] < t[i])

\* pathlib's PurePath.suffix of a name: from the last '.', unless that dot is the
\* first or the last character.
Dots(name) == {i \in 1..Len(name) : name[i] = 46}
RFind(name) == IF Dots(name) = {} THEN 0 ELSE CHOOSE i \in Dots(name) : \A j \in Dots(name) : j <= i
Suffix(name) ==
    LET i == RFind(name)
    IN IF 1 < i /\ i < Len(name) THEN SubSeq(name, i, Len(name)) ELSE <<>>

\* str.lstrip('.')
RECURSIVE LStripDot(_)
LStripDot(s) == IF Len(s) > 0 /\ s[1] = 46 THEN LStripDot(Tail(s)) ELSE s

\* root_path.suffix.lstrip('.').lower()
Ext(name) == Lower(LStripDot(Suffix(name)))

----------------------------------------------------------------------------
\* The file system.  A path is a sequence of names whose first element is the
\* root's name; a file system maps each existing real path to its entry:
\*   kind   "dir", "file" or "link" (a symbolic link to the directory target)
\*   lines  the number of lines of a file
\*   ok     a directory can be listed and its entries examined / a file can be read
\*   target the real path a link points to

Entry(kind, lines, ok, target) == [kind |-> kind, lines |-> lines, ok |-> ok, target |-> target]
DirEntry(ok) == Entry("dir", 0, ok, <<>>)
FileEntry(lines, ok) == Entry("file", lines, ok, <<>>)
LinkEntry(target) == Entry("link", 0, TRUE, target)

\* The real path of p: links on the way are followed (Path.is_dir, Path.iterdir
\* and open all follow symbolic links).
RECURSIVE Real(_, _)
Real(F, p) ==
    IF Len(p) <= 1 THEN p
    ELSE LET q == Real(F, Front(p)) \o <<Last(p)>>
         IN IF q \in DOMAIN F /\ F[q].kind = "link" THEN F[q].target ELSE q

\* Path.exists()
exists(F, p) == Real(F, p) \in DOMAIN F

\* Path.is_dir()
is_dir(F, p) == exists(F, p) /\ F[Real(F, p)].kind = "dir"

\* The entries Path.iterdir() yields, as paths under p.
iterdir(F, p) ==
    LET r == Real(F, p)
    IN {p \o <<Last(q)>> : q \in {x \in DOMAIN F : Len(x) = Len(r) + 1 /\ Front(x) = r}}

\* sorted(root_path.iterdir(), key=...) raises PermissionError: the directory
\* cannot be listed, or its entries cannot be examined by the sort key.
RaisesPermissionError(F, p) == ~F[Real(F, p)].ok

----------------------------------------------------------------------------
\* count_lines

\* (mutant) a failed read reported as -1 instead of 0
count_lines_MinusOne(F, file_path) ==
    LET e == F[Real(F, file_path)]
    IN IF e.ok THEN e.lines ELSE -1

count_lines(F, file_path) ==
    LET e == F[Real(F, file_path)]
    IN IF e.ok THEN e.lines ELSE 0

----------------------------------------------------------------------------
\* analyze_directory

\* (mutant) the depth test off by one
DepthExceeded_OffByOne(current_depth, max_depth) == current_depth > max_depth + 1

\* line 91: the depth test
DepthExceeded(current_depth, max_depth) == current_depth > max_depth

\* line 105
IsKeyName(name) == Lower(name) \in DOMAIN KEY_DIRECTORIES

\* (mutant) the include_hidden flag read the wrong way round
HiddenDropped_Inverted(name, include_hidden) ==
    include_hidden /\ StartsWithDot(name) /\ name # <<46>>

\* line 108: a hidden directory is dropped unless hidden entries are requested
HiddenDropped(name, include_hidden) ==
    ~include_hidden /\ StartsWithDot(name) /\ name # <<46>>

\* (mutant) node_modules missing from the skip set
IsSkipDir_NoModules(name) == name \in skip_dirs \ {N_node_modules}

\* line 113
IsSkipDir(name) == name \in skip_dirs

\* (mutant) the sort key without the directories-first part
KeyLess_NameOnly(F, a, b) == StrLess(Last(a), Last(b))

\* line 119: the sort key (not x.is_dir(), x.name); FALSE sorts before TRUE
KeyLess(F, a, b) ==
    LET ka == ~is_dir(F, a)
        kb == ~is_dir(F, b)
    IN \/ (~ka /\ kb)
       \/ (ka = kb /\ StrLess(Last(a), Last(b)))

RECURSIVE SortedItems(_, _)
SortedItems(F, S) ==
    IF S = {} THEN <<>>
    ELSE LET m == CHOOSE x \in S : \A y \in S \ {x} : KeyLess(F, x, y)
         IN <<m>> \o SortedItems(F, S \ {m})

\* (mutant) the child's count assigned instead of added
AddLineCount_Assign(total, child) == child.line_count

\* line 124
AddLineCount(total, child) == total + child.line_count

\* (mutant) the denied directory marked like a skipped one
DeniedChildren_AsSkipped == <<SKIPPED>>

\* line 126
DeniedChildren == <<DENIED>>

\* line 114
SkippedChildren == <<SKIPPED>>

\* lines 94-101
NewNode(F, root_path) ==
    [name |-> Last(root_path),
     type |-> IF is_dir(F, root_path) THEN "dir" ELSE "file",
     path |-> root_path,
     children |-> <<>>,
     line_count |-> 0,
     is_key |-> FALSE]

\* (mutant) the lines of every file counted, whatever its extension
FileLineCount_AnyExtension(F, root_path) == count_lines(F, root_path)

\* lines 129-131
FileLineCount(F, root_path) ==
    IF Ext(Last(root_path)) \in CODE_EXTENSIONS THEN count_lines(F, root_path) ELSE 0

RECURSIVE analyze_directory(_, _, _, _, _), ProcessItems(_, _, _, _, _, _)
analyze_directory(F, root_path, max_depth, include_hidden, current_depth) ==
    IF DepthExceeded(current_depth, max_depth) THEN None
    ELSE
      LET result == NewNode(F, root_path)
          name == Last(root_path)
      IN IF is_dir(F, root_path)
         THEN LET keyed == [result EXCEPT !.is_key = IsKeyName(name)]
              IN IF HiddenDropped(name, include_hidden) THEN None
                 ELSE IF IsSkipDir(name) THEN [keyed EXCEPT !.children = SkippedChildren]
                 ELSE IF RaisesPermissionError(F, root_path)
                      THEN [keyed EXCEPT !.children = DeniedChildren]
                 ELSE ProcessItems(F, SortedItems(F, iterdir(F, root_path)),
                                   max_depth, include_hidden, current_depth, keyed)
         ELSE [result EXCEPT !.line_count = FileLineCount(F, root_path)]

\* lines 120-124: the loop over the sorted items
ProcessItems(F, items, max_depth, include_hidden, current_depth, result) ==
    IF items = <<>> THEN result
    ELSE LET child == analyze_directory(F, Head(items), max_depth, include_hidden,
                                        current_depth + 1)
             next == IF child = None THEN result
                     ELSE [result EXCEPT !.children = Append(@, child),
                                         !.line_count = AddLineCount(@, child)]
         IN ProcessItems(F, Tail(items), max_depth, include_hidden, current_depth, next)

\* The invocations of analyze_directory that one call makes, itself included, each
\* as <<root_path, current_depth>>: the call returns at once beyond the depth
\* bound (line 92), for a file, a hidden, a skipped or a denied directory, and
\* otherwise calls itself on every listed item (line 121).
RECURSIVE Calls(_, _, _, _, _)
Calls(F, root_path, max_depth, include_hidden, current_depth) ==
    {<<root_path, current_depth>>} \cup
    IF /\ ~DepthExceeded(current_depth, max_depth)
       /\ is_dir(F, root_path)
       /\ ~HiddenDropped(Last(root_path), include_hidden)
       /\ ~IsSkipDir(Last(root_path))
       /\ ~RaisesPermissionError(F, root_path)
    THEN UNION {Calls(F, item, max_depth, include_hidden, current_depth + 1) :
                    item \in iterdir(F, root_path)}
    ELSE {}

----------------------------------------------------------------------------
\* calculate_stats

EmptyStats ==
    [total_files |-> 0, code_files |-> 0, total_lines |-> 0, directories |-> 0,
     by_language |-> <<>>]

\* stats['by_language'][ext] = stats['by_language'].get(ext, 0) + n
AddLanguage(by_language, ext, n) ==
    [e \in DOMAIN by_language \cup {ext} |->
        (IF e \in DOMAIN by_language THEN by_language[e] ELSE 0) + (IF e = ext THEN n ELSE 0)]

\* (mutant) directory nodes not counted
CountDirectory_None(stats) == stats

\* lines 197: a directory node is counted
CountDirectory(stats) == [stats EXCEPT !.directories = @ + 1]

\* (mutant) every file counted as a code file, whatever its line count
CountFile_All(stats, node) ==
    [stats EXCEPT !.total_files = @ + 1,
                  !.code_files = @ + 1,
                  !.total_lines = @ + node.line_count,
                  !.by_language = AddLanguage(@, Ext(Last(node.path)), node.line_count)]

\* lines 201-207: a file node is counted
CountFile(stats, node) ==
    LET s1 == [stats EXCEPT !.total_files = @ + 1]
    IN IF node.line_count > 0
       THEN [s1 EXCEPT !.code_files = @ + 1,
                       !.total_lines = @ + node.line_count,
                       !.by_language = AddLanguage(@, Ext(Last(node.path)), node.line_count)]
       ELSE s1

RECURSIVE traverse(_, _), TraverseChildren(_, _)
traverse(node, stats) ==
    IF IsStr(node) THEN stats
    ELSE IF node.type = "dir" THEN TraverseChildren(node.children, CountDirectory(stats))
    ELSE CountFile(stats, node)

TraverseChildren(children, stats) ==
    IF children = <<>> THEN stats
    ELSE TraverseChildren(Tail(children), traverse(Head(children), stats))

calculate_stats(structure) == traverse(structure, EmptyStats)

----------------------------------------------------------------------------
\* generate_text_tree

\* The glyphs, as the code points of the source file's literals.
CONNECTOR_LAST == <<226, 8221, 8221, 226, 8221, 8364, 226, 8221, 8364, 32>>
CONNECTOR_MID == <<226, 8221, 339, 226, 8221, 8364, 226, 8221, 8364, 32>>
EXTENSION_LAST == <<32, 32, 32, 32>>
EXTENSION_MID == <<226, 8221, 8218, 32, 32, 32>>

\* One line of the text tree: the code points text followed by the string tail
\* (a key directory's description or a marker; empty for a node's own line).
TextLine(text, tail) == [text |-> text, tail |-> tail]

\* line 139
Connector(is_last) == IF is_last THEN CONNECTOR_LAST ELSE CONNECTOR_MID

\* lines 146, 150
Extension(is_last) == IF is_last THEN EXTENSION_LAST ELSE EXTENSION_MID

\* lines 143-146: the annotation line of a key directory, "# " and its description
KeyLines(structure, prefix, is_last) ==
    IF structure.type = "dir" /\ structure.is_key
    THEN <<TextLine(prefix \o Extension(is_last) \o <<35, 32>>,
                    IF Lower(structure.name) \in DOMAIN KEY_DIRECTORIES
                    THEN KEY_DIRECTORIES[Lower(structure.name)] ELSE "")>>
    ELSE <<>>

\* (mutant) the first child taken for the last
IsLastChild_First(i, children) == i = 1

\* line 157
IsLastChild(i, children) == i = Len(children)

RECURSIVE generate_text_tree(_, _, _), TextTreeChildren(_, _, _, _)
\* The lines of the returned string, in order.
generate_text_tree(structure, prefix, is_last) ==
    <<TextLine(prefix \o Connector(is_last) \o structure.name, "")>>
    \o KeyLines(structure, prefix, is_last)
    \o TextTreeChildren(structure.children, 1, prefix, Extension(is_last))

\* lines 152-158: the loop over children, from the i-th on
TextTreeChildren(children, i, prefix, extension) ==
    IF i > Len(children) THEN <<>>
    ELSE (IF IsStr(children[i])
          THEN <<TextLine(prefix \o extension, children[i].value)>>
          ELSE generate_text_tree(children[i], prefix \o extension, IsLastChild(i, children)))
         \o TextTreeChildren(children, i + 1, prefix, extension)

----------------------------------------------------------------------------
\* generate_mermaid_tree

\* str(n) in an f-string: the decimal digits of n >= 0
RECURSIVE Decimal(_)
Decimal(n) == IF n < 10 THEN <<48 + n>> ELSE Decimal(n \div 10) \o <<48 + (n % 10)>>

\* '  ' * indent
RECURSIVE Spaces(_)
Spaces(indent) == IF indent <= 0 THEN <<>> ELSE <<32, 32>> \o Spaces(indent - 1)

\* line 176: " (N lines)" for a counted file
LineInfo(line_count) ==
    IF line_count > 0
    THEN <<32, 40>> \o Decimal(line_count) \o <<32, 108, 105, 110, 101, 115, 41>>
    ELSE <<>>

RECURSIVE generate_mermaid_tree(_, _), MermaidChildren(_, _)
\* The lines of the returned string, in order.
generate_mermaid_tree(structure, indent) ==
    IF structure.type = "dir"
    THEN <<Spaces(indent) \o structure.name>> \o MermaidChildren(structure.children, indent)
    ELSE <<Spaces(indent) \o structure.name \o LineInfo(structure.line_count)>>

\* lines 170-173
MermaidChildren(children, indent) ==
    IF children = <<>> THEN <<>>
    ELSE (IF IsStr(Head(children)) THEN <<>>
          ELSE generate_mermaid_tree(Head(children), indent + 1))
         \o MermaidChildren(Tail(children), indent)

----------------------------------------------------------------------------
\* What a call leaves of the tree it was given.  calculate_stats and the two
\* renderers read the node dictionaries and assign only to their own locals
\* (stats, lines): the tree object is the same after the call.

\* (mutant) the traversal consuming the children lists it walks
TreeAfterStats_Consumed(structure) == [structure EXCEPT !.children = <<>>]

TreeAfterStats(structure) == structure
TreeAfterTextTree(structure) == structure
TreeAfterMermaidTree(structure) == structure

----------------------------------------------------------------------------
\* The artifact: json.dump({'structure': ..., 'stats': ...}, f, indent=2).
\* Only its number of lines matters to a later run (count_lines).

RECURSIVE NodeLines(_), ItemsLines(_)
\* "{", name, type, path, children, line_count, is_key, "}"
NodeLines(node) ==
    1 + 3 + (IF node.children = <<>> THEN 1 ELSE 1 + ItemsLines(node.children) + 1) + 2 + 1

ItemsLines(children) ==
    IF children = <<>> THEN 0
    ELSE (IF IsStr(Head(children)) THEN 1 ELSE NodeLines(Head(children)))
         + ItemsLines(Tail(children))

StatsLines(st) ==
    1 + 4 + (IF DOMAIN st.by_language = {} THEN 1 ELSE 1 + Cardinality(DOMAIN st.by_language) + 1) + 1

ArtifactLines(tree, st) == 1 + NodeLines(tree) + StatsLines(st) + 1

\* (mutant) an artifact that is there already is kept
WriteFile_KeepExisting(F, p, lines) ==
    [q \in DOMAIN F \cup {p} |-> IF q = p /\ p \notin DOMAIN F THEN FileEntry(lines, TRUE) ELSE F[q]]

\* open(output_file, 'w') ... json.dump: the artifact (over)written in the root
WriteFile(F, p, lines) ==
    [q \in DOMAIN F \cup {p} |-> IF q = p THEN FileEntry(lines, TRUE) ELSE F[q]]

----------------------------------------------------------------------------
\* The file systems the runs start from.

RootNames == {N_proj, N_dotconfig, N_build}

\* The entries a root may hold, by path relative to the root.
Candidates ==
       (<<N_src>> :> DirEntry(TRUE))
    @@ (<<N_src, N_a_py>> :> FileEntry(10, TRUE))
    @@ (<<N_src, N_b_py>> :> FileEntry(5, TRUE))
    @@ (<<N_src, N_loop>> :> LinkEntry(<<>>))
    @@ (<<N_README_md>> :> FileEntry(3, TRUE))
    @@ (<<N_node_modules>> :> DirEntry(TRUE))
    @@ (<<N_node_modules, N_x_js>> :> FileEntry(7, TRUE))
    @@ (<<N_dothid>> :> DirEntry(TRUE))
    @@ (<<N_dothid, N_h_py>> :> FileEntry(2, TRUE))
    @@ (<<N_dotgit>> :> DirEntry(TRUE))
    @@ (<<N_dotenv_json>> :> FileEntry(4, TRUE))
    @@ (<<N_Z_PY>> :> FileEntry(6, TRUE))

\* The entry sets tried: one choice for each group of entries of the root.
SrcShapes ==
    { {},
      {<<N_src>>},
      {<<N_src>>, <<N_src, N_a_py>>},
      {<<N_src>>, <<N_src, N_b_py>>},
      {<<N_src>>, <<N_src, N_a_py>>, <<N_src, N_b_py>>},
      {<<N_src>>, <<N_src, N_a_py>>, <<N_src, N_b_py>>, <<N_src, N_loop>>} }
ModulesShapes ==
    { {}, {<<N_node_modules>>}, {<<N_node_modules>>, <<N_node_modules, N_x_js>>} }
HiddenShapes ==
    { {}, {<<N_dotgit>>}, {<<N_dothid>>, <<N_dothid, N_h_py>>},
      {<<N_dotgit>>, <<N_dothid>>, <<N_dothid, N_h_py>>} }
TopFileShapes == SUBSET {<<N_README_md>>, <<N_dotenv_json>>}
EntrySets ==
    {a \cup b \cup c \cup d :
        a \in SrcShapes, b \in ModulesShapes, c \in HiddenShapes, d \in TopFileShapes}

\* The file system with root directory root, the entries S, and the entries bad
\* unlistable (directories) or unreadable (files).
MkFs(root, S, bad) ==
    [p \in {<<root>>} \cup {<<root>> \o r : r \in S} |->
        IF Len(p) = 1 THEN DirEntry(<<>> \notin bad)
        ELSE LET r == Tail(p)
                 e == Candidates[r]
             IN IF e.kind = "link" THEN LinkEntry(<<root>>)
                ELSE [e EXCEPT !.ok = r \notin bad]]

\* No root at all: the path does not exist.
NoFs == <<>>

\* What cannot be listed or read: nothing, the root, src, or src/a.py.
BadSets == { {}, {<<>>}, {<<N_src>>}, {<<N_src, N_a_py>>} }

\* A root named like a hidden or a generated directory holds one of a few entry sets.
FewEntrySets ==
    { {},
      {<<N_src>>, <<N_src, N_a_py>>, <<N_src, N_b_py>>},
      {<<N_src>>, <<N_src, N_a_py>>, <<N_src, N_b_py>>, <<N_README_md>>, <<N_dotenv_json>>,
       <<N_Z_PY>>, <<N_dothid>>, <<N_dothid, N_h_py>>, <<N_node_modules>>, <<N_node_modules, N_x_js>>} }

FileSystems ==
    {NoFs}
    \cup {MkFs(N_proj, S, bad) : S \in EntrySets, bad \in BadSets}
    \cup {MkFs(root, S, bad) : root \in RootNames \ {N_proj}, S \in FewEntrySets, bad \in BadSets}

----------------------------------------------------------------------------
\* The run of main.

VARIABLES
    fs,             \* the file system
    root_name,      \* the name of project_path, the resolved sys.argv[1]
    max_depth,      \* --max-depth
    include_hidden, \* --include-hidden
    pc,             \* where main is
    structure,      \* main's structure
    stats,          \* main's stats
    output,         \* what the run has printed, in order
    exit_code,      \* the exit code of the finished run
    run,            \* the number of the invocation
    prev,           \* structure and stats of the previous completed invocation
    entry_points,   \* find_entry_points.py, main's entry_points
    config_files,   \* find_entry_points.py, main's config_files
    routes,         \* find_entry_points.py, main's routes
    endpoints_info, \* find_entry_points.py, main's endpoints_info
    repository,     \* commit_helper.py, the status entries of the git repository
    changes         \* commit_helper.py, main's changes

vars == <<fs, root_name, max_depth, include_hidden, pc, structure, stats, output, exit_code, run, prev,
          entry_points, config_files, routes, endpoints_info, repository, changes>>

project_path == <<root_name>>
output_file == project_path \o <<N_artifact>>

\* What one print adds to the output: a literal text, or (text empty) the value
\* the print formats.
Printed(text) == [text |-> text, body |-> <<>>]
PrintedValue(body) == [text |-> "", body |-> body]

Init ==
    /\ root_name \in RootNames
    /\ fs \in {F \in FileSystems : F = NoFs \/ <<root_name>> \in DOMAIN F}
    /\ max_depth \in 0..MaxDepthBound
    /\ include_hidden \in BOOLEAN
    /\ pc = "check_path"
    /\ structure = None
    /\ stats = None
    /\ output = <<>>
    /\ exit_code = None
    /\ run = 1
    /\ prev = None
    /\ entry_points = None /\ config_files = None /\ routes = None /\ endpoints_info = None
    /\ repository = None /\ changes = None

\* lines 237-241
CheckPath ==
    /\ pc = "check_path"
    /\ IF ~exists(fs, project_path)
       THEN /\ output' = Append(output, Printed("Error: Path not found"))
            /\ exit_code' = 1
            /\ pc' = "exited"
       ELSE /\ output' = Append(output, Printed("Analyzing"))
            /\ pc' = "analyze"
            /\ UNCHANGED exit_code
    /\ UNCHANGED <<fs, root_name, max_depth, include_hidden, structure, stats, run, prev>>
    /\ UNCHANGED <<entry_points, config_files, routes, endpoints_info, repository, changes>>

\* line 244
Analyze ==
    /\ pc = "analyze"
    /\ structure' = analyze_directory(fs, project_path, max_depth, include_hidden, 0)
    /\ pc' = "stats"
    /\ UNCHANGED <<fs, root_name, max_depth, include_hidden, stats, output, exit_code, run, prev>>
    /\ UNCHANGED <<entry_points, config_files, routes, endpoints_info, repository, changes>>

\* line 247; traverse(None) raises TypeError at node['type'], which ends the run
Stats ==
    /\ pc = "stats"
    /\ IF structure = None
       THEN /\ output' = Append(output, Printed("Traceback"))
            /\ exit_code' = 1
            /\ pc' = "exited"
            /\ UNCHANGED <<stats, structure>>
       ELSE /\ stats' = calculate_stats(structure)
            /\ structure' = TreeAfterStats(structure)
            /\ pc' = "print_stats"
            /\ UNCHANGED <<output, exit_code>>
    /\ UNCHANGED <<fs, root_name, max_depth, include_hidden, run, prev>>
    /\ UNCHANGED <<entry_points, config_files, routes, endpoints_info, repository, changes>>

\* lines 250-259
PrintStats ==
    /\ pc = "print_stats"
    /\ output' = output \o <<Printed("PROJECT STATISTICS"), PrintedValue(stats)>>
    /\ pc' = "print_tree"
    /\ UNCHANGED <<fs, root_name, max_depth, include_hidden, structure, stats, exit_code, run, prev>>
    /\ UNCHANGED <<entry_points, config_files, routes, endpoints_info, repository, changes>>

\* lines 261-264
PrintTree ==
    /\ pc = "print_tree"
    /\ output' = output \o <<Printed("DIRECTORY TREE"),
                              PrintedValue(generate_text_tree(structure, <<>>, TRUE))>>
    /\ structure' = TreeAfterTextTree(structure)
    /\ pc' = "print_mermaid"
    /\ UNCHANGED <<fs, root_name, max_depth, include_hidden, stats, exit_code, run, prev>>
    /\ UNCHANGED <<entry_points, config_files, routes, endpoints_info, repository, changes>>

\* lines 266-272; (fence) stands for the three backquotes of a code fence
PrintMermaid ==
    /\ pc = "print_mermaid"
    /\ output' = output \o <<Printed("MERMAID TREE DIAGRAM"),
                              Printed("(fence) mermaid"), Printed("graph TD"),
                              PrintedValue(generate_mermaid_tree(structure, 0)),
                              Printed("(fence)")>>
    /\ structure' = TreeAfterMermaidTree(structure)
    /\ pc' = "write"
    /\ UNCHANGED <<fs, root_name, max_depth, include_hidden, stats, exit_code, run, prev>>
    /\ UNCHANGED <<entry_points, config_files, routes, endpoints_info, repository, changes>>

\* lines 275-282; open(output_file, 'w') raises when the root cannot be written to
WriteArtifact ==
    /\ pc = "write"
    /\ \E writable \in BOOLEAN :
        IF writable
        THEN /\ fs' = WriteFile(fs, output_file, ArtifactLines(structure, stats))
             /\ output' = Append(output, Printed("Structure saved"))
             /\ exit_code' = 0
             /\ pc' = "done"
        ELSE /\ output' = Append(output, Printed("Traceback"))
             /\ exit_code' = 1
             /\ pc' = "exited"
             /\ UNCHANGED fs
    /\ UNCHANGED <<root_name, max_depth, include_hidden, structure, stats, run, prev>>
    /\ UNCHANGED <<entry_points, config_files, routes, endpoints_info, repository, changes>>

\* The analyzer is invoked again on the same root with the same options.
Rerun ==
    /\ pc = "done"
    /\ run < MaxRuns
    /\ run' = run + 1
    /\ prev' = [structure |-> structure, stats |-> stats]
    /\ pc' = "check_path"
    /\ structure' = None
    /\ stats' = None
    /\ output' = <<>>
    /\ exit_code' = None
    /\ UNCHANGED <<fs, root_name, max_depth, include_hidden>>
    /\ UNCHANGED <<entry_points, config_files, routes, endpoints_info, repository, changes>>

Next ==
    \/ CheckPath
    \/ Analyze
    \/ Stats
    \/ PrintStats
    \/ PrintTree
    \/ PrintMermaid
    \/ WriteArtifact
    \/ Rerun

Spec == Init /\ [][Next]_vars

----------------------------------------------------------------------------
\* Reading a tree.

\* The child nodes among a children sequence (the markers left out).
ChildNodes(children) == {children[i] : i \in {j \in DOMAIN children : ~IsStr(children[j])}}

RECURSIVE NodesOf(_)
NodesOf(node) == {node} \cup UNION {NodesOf(c) : c \in ChildNodes(node.children)}

RECURSIVE SumLineCounts(_)
SumLineCounts(children) ==
    IF children = <<>> THEN 0
    ELSE (IF IsStr(Head(children)) THEN 0 ELSE Head(children).line_count)
         + SumLineCounts(Tail(children))

\* The depth of a node: the number of steps from the root to its path.
Depth(node) == Len(node.path) - 1

IsMarked(node) == node.children = <<SKIPPED>> \/ node.children = <<DENIED>>

\* analyze_directory has just returned a tree to main (line 244): the file system
\* is the one the tree was built from.
Returned == pc = "stats" /\ structure # None

\* main's call of line 244 on a file system F
Tree(F) == analyze_directory(F, project_path, max_depth, include_hidden, 0)

----------------------------------------------------------------------------
\* C1. Rollup: in every tree analyze_directory returns, the line_count of every
\* directory node is the sum of the line_count of its direct child nodes; a
\* directory whose children is a truncation marker has line_count 0.
C1_Rollup ==
    Returned =>
        \A n \in NodesOf(structure) :
            n.type = "dir" =>
                /\ n.line_count = SumLineCounts(n.children)
                /\ IsMarked(n) => n.line_count = 0

\* C1's case: a tree with a directory summing two counted files and, beside it, a
\* directory cut short by a marker.
C1_Witness ==
    /\ Returned
    /\ \E n \in NodesOf(structure) :
           n.type = "dir" /\ Len(n.children) >= 2 /\ n.line_count = 15
    /\ \E n \in NodesOf(structure) : n.type = "dir" /\ IsMarked(n)
    /\ structure.line_count > 15

----------------------------------------------------------------------------
\* C2.  The paths of F without the hidden directories (other than the root) and
\* all that lies beneath them.
HiddenDirAt(F, p, i) == StartsWithDot(p[i]) /\ F[SubSeq(p, 1, i)].kind # "file"
WithoutHiddenDirs(F) ==
    [p \in {q \in DOMAIN F : \A i \in 2..Len(q) : ~HiddenDirAt(F, q, i)} |-> F[p]]
WithoutHidden(F) ==
    [p \in {q \in DOMAIN F : \A i \in 2..Len(q) : ~StartsWithDot(q[i])} |-> F[p]]

\* C2 as claimed: with include_hidden false, no node other than the root has a name
\* beginning with '.', directory or file, and the hidden paths change no line count.
C2_HiddenExclusion_Claimed ==
    (Returned /\ ~include_hidden) =>
        /\ \A n \in NodesOf(structure) : Depth(n) > 0 => ~StartsWithDot(n.name)
        /\ structure = Tree(WithoutHidden(fs))

\* C2 as amended: with include_hidden false, no directory node other than the root
\* has a name beginning with '.', and the tree, with all its line counts, is the
\* tree of the file system without its hidden directories and what they hold;
\* hidden files are kept.
C2_HiddenDirExclusion ==
    (Returned /\ ~include_hidden) =>
        /\ \A n \in NodesOf(structure) :
               (Depth(n) > 0 /\ n.type = "dir") => ~StartsWithDot(n.name)
        /\ structure = Tree(WithoutHiddenDirs(fs))

\* C2's case: a hidden directory holding a counted file was in a listed directory,
\* and a hidden file is in the tree.
C2_Witness ==
    /\ Returned /\ ~include_hidden
    /\ project_path \o <<N_dothid, N_h_py>> \in DOMAIN fs
    /\ \E n \in NodesOf(structure) : n.type = "file" /\ StartsWithDot(n.name)
    /\ structure.line_count > 0

----------------------------------------------------------------------------
\* C3. Depth bound: for max_depth = d >= 0 no node lies deeper than d, and deeper
\* entries leave no placeholder: with d = 0 the result is the root node alone,
\* with no child node, whatever its subdirectories hold.
RootAlone ==
    [name |-> root_name, type |-> "dir", path |-> project_path,
     children |-> IF root_name \in skip_dirs THEN <<SKIPPED>>
                  ELSE IF ~fs[project_path].ok THEN <<DENIED>> ELSE <<>>,
     line_count |-> 0,
     is_key |-> Lower(root_name) \in DOMAIN KEY_DIRECTORIES]

C3_DepthBound ==
    (Returned /\ max_depth >= 0) =>
        /\ \A n \in NodesOf(structure) : Depth(n) <= max_depth
        /\ \A n \in NodesOf(structure) :
               (n.type = "dir" /\ Depth(n) = max_depth) => ChildNodes(n.children) = {}
        /\ max_depth = 0 => structure = RootAlone

\* C3's case: max_depth = 0 on a listable root holding a subdirectory with files.
C3_Witness ==
    /\ Returned /\ max_depth = 0
    /\ project_path \o <<N_src, N_a_py>> \in DOMAIN fs
    /\ structure.children = <<>>

----------------------------------------------------------------------------
\* C4. Ordering: among the child nodes of every directory node, directories come
\* before files, and within each group the names ascend.
C4_Ordering ==
    Returned =>
        \A n \in NodesOf(structure) :
            (n.type = "dir" /\ ~IsMarked(n)) =>
                \A i, j \in DOMAIN n.children :
                    i < j =>
                        LET a == n.children[i]
                            b == n.children[j]
                        IN IF a.type = b.type THEN StrLess(a.name, b.name)
                           ELSE a.type = "dir" /\ b.type = "file"

\* C4's case: a directory with two directories and two files left after a hidden
\* directory was dropped, one file's name sorting before a directory's.
C4_Witness ==
    /\ Returned /\ ~include_hidden
    /\ project_path \o <<N_dothid>> \in DOMAIN fs
    /\ Len(structure.children) >= 4
    /\ \E i, j \in DOMAIN structure.children :
           /\ i < j
           /\ structure.children[i].type = "dir"
           /\ structure.children[j].type = "file"
           /\ StrLess(structure.children[j].name, structure.children[i].name)

----------------------------------------------------------------------------
\* C5. The scenario: src/a.py (10 lines), src/b.py (5 lines), README.md (3 lines)
\* and an empty node_modules/, analyzed with the default options.
ScenarioFs ==
    MkFs(N_proj,
         {<<N_src>>, <<N_src, N_a_py>>, <<N_src, N_b_py>>, <<N_README_md>>, <<N_node_modules>>},
         {})

Scenario ==
    /\ fs = ScenarioFs
    /\ max_depth = DefaultMaxDepth
    /\ ~include_hidden
    /\ pc = "print_stats"

\* The node_modules node is in the tree, cut short by a marker, nothing descended.
ScenarioModulesNode ==
    \E i \in DOMAIN structure.children :
        LET c == structure.children[i]
        IN c.name = N_node_modules /\ c.type = "dir" /\ IsMarked(c)

\* C5 as claimed: the scenario's stats are directories = 2, totalFiles = 3,
\* codeFiles = 2, totalLines = 15, byExtension = {py: 15}, and node_modules is
\* present with a truncation marker.
C5_Scenario_Claimed ==
    Scenario =>
        /\ stats = [directories |-> 2, total_files |-> 3, code_files |-> 2,
                    total_lines |-> 15, by_language |-> (N_py :> 15)]
        /\ ScenarioModulesNode

\* C5 as amended: the same scenario yields directories = 3 (the root, src and the
\* marked node_modules), totalFiles = 3, codeFiles = 2, totalLines = 15,
\* byExtension = {py: 15}, and node_modules is present with a truncation marker.
C5_Scenario ==
    Scenario =>
        /\ stats = [directories |-> 3, total_files |-> 3, code_files |-> 2,
                    total_lines |-> 15, by_language |-> (N_py :> 15)]
        /\ ScenarioModulesNode

\* C5's case: the scenario has been analyzed and aggregated.
C5_Witness == Scenario /\ stats # None /\ Len(structure.children) = 3

----------------------------------------------------------------------------
\* C6. Skipped by policy versus pruned by depth: a directory the traversal comes
\* to within the depth bound, not dropped as hidden, whose name is in the ignore
\* set is in the tree as a directory node with exactly the skipped marker, line
\* count 0 and nothing descended; nothing beyond the depth bound is in the tree;
\* and the skipped marker stands for the ignore set only.

\* A directory node whose entries were listed.
Listed(n) == n.type = "dir" /\ ~IsMarked(n)
SkippedNode(n) ==
    n.type = "dir" /\ n.children = <<SKIPPED>> /\ n.line_count = 0

C6_SkippedVersusPruned ==
    (Returned /\ max_depth >= 0) =>
        /\ root_name \in skip_dirs => SkippedNode(structure)
        /\ \A n \in NodesOf(structure) :
               Listed(n) =>
                   \A item \in iterdir(fs, n.path) :
                       ( /\ is_dir(fs, item)
                         /\ Last(item) \in skip_dirs
                         /\ Len(item) - 1 <= max_depth
                         /\ (include_hidden \/ ~StartsWithDot(Last(item))) )
                       => \E c \in ChildNodes(n.children) : c.path = item /\ SkippedNode(c)
        /\ \A n \in NodesOf(structure) :
               /\ Depth(n) <= max_depth
               /\ n.children = <<SKIPPED>> <=> (n.type = "dir" /\ n.name \in skip_dirs)

\* C6's case: a node_modules holding a file is in the tree, marked, while the
\* files of src, beyond the depth bound, are absent.
C6_Witness ==
    /\ Returned /\ max_depth = 1
    /\ project_path \o <<N_node_modules, N_x_js>> \in DOMAIN fs
    /\ project_path \o <<N_src, N_a_py>> \in DOMAIN fs
    /\ \E c \in ChildNodes(structure.children) : c.name = N_node_modules /\ SkippedNode(c)
    /\ \E c \in ChildNodes(structure.children) : c.name = N_src /\ c.children = <<>>

----------------------------------------------------------------------------
\* C7 as claimed: for every existing root directory and every max_depth >= 0,
\* analyze_directory returns a node for the root, never None, so that
\* calculate_stats and the renderers complete.
C7_RootNode_Claimed ==
    ( /\ is_dir(fs, project_path)
      /\ max_depth >= 0
      /\ pc \notin {"check_path", "analyze"} )
    => structure # None

----------------------------------------------------------------------------
\* C8 as claimed: a second complete invocation on the same root with the same
\* options, nothing changed but the artifact the first one wrote, produces the
\* structure and the stats of the first.
C8_NoReadBack_Claimed ==
    (run > 1 /\ pc = "done") =>
        /\ structure = prev.structure
        /\ stats = prev.stats

----------------------------------------------------------------------------
\* C9 as claimed: when the root is absent, or exists but cannot be listed, the run
\* reports the error and exits non-zero and nothing else runs: no section is
\* printed and no artifact is written.
FatalInput ==
    \/ ~exists(fs, project_path)
    \/ (is_dir(fs, project_path) /\ ~fs[project_path].ok)

Sections == {"PROJECT STATISTICS", "DIRECTORY TREE", "MERMAID TREE DIAGRAM"}

C9_FatalInput_Claimed ==
    FatalInput =>
        /\ \A i \in DOMAIN output : output[i].text \notin Sections
        /\ output_file \notin DOMAIN fs
        /\ pc # "done"
        /\ pc = "exited" => exit_code # 0

----------------------------------------------------------------------------
\* C10. Permission denial while listing a directory stays inside
\* analyze_directory: the denied directory is a node whose children is exactly
\* the denied marker, and the rest of the tree is what it would be were that
\* directory listable and empty.

\* F with every unlistable directory made listable and emptied.
Denied(F) == {d \in DOMAIN F : F[d].kind = "dir" /\ ~F[d].ok}
Beneath(d, p) == Len(p) > Len(d) /\ SubSeq(p, 1, Len(d)) = d
ListableAndEmpty(F) ==
    [p \in {q \in DOMAIN F : \A d \in Denied(F) : ~Beneath(d, q)} |->
        IF p \in Denied(F) THEN DirEntry(TRUE) ELSE F[p]]

\* The tree with the denied marker of each such directory replaced by no children.
RECURSIVE Undenied(_), UndeniedAll(_)
Undenied(node) ==
    IF IsStr(node) THEN node
    ELSE IF node.children = <<DENIED>> THEN [node EXCEPT !.children = <<>>]
    ELSE [node EXCEPT !.children = UndeniedAll(@)]
UndeniedAll(children) ==
    IF children = <<>> THEN <<>>
    ELSE <<Undenied(Head(children))>> \o UndeniedAll(Tail(children))

C10_PermissionDenied ==
    Returned =>
        /\ \A n \in NodesOf(structure) :
               (n.type = "dir" /\ n.name \notin skip_dirs) =>
                   (n.children = <<DENIED>> <=> Real(fs, n.path) \in Denied(fs))
        /\ Undenied(structure) = Tree(ListableAndEmpty(fs))

\* C10's case: src holds files and cannot be listed; its node carries the denied
\* marker and its siblings are in the tree.
C10_Witness ==
    /\ Returned
    /\ project_path \o <<N_src>> \in Denied(fs)
    /\ project_path \o <<N_src, N_a_py>> \in DOMAIN fs
    /\ \E c \in ChildNodes(structure.children) : c.name = N_src /\ c.children = <<DENIED>>
    /\ \E c \in ChildNodes(structure.children) : c.name = N_README_md

----------------------------------------------------------------------------
\* C11. A file whose read fails gets line_count 0: count_lines returns 0, the
\* file's node is in the tree, and the tree is in every other respect the tree
\* of the same file system with that file readable and empty.

Unreadable(F) == {p \in DOMAIN F : F[p].kind = "file" /\ ~F[p].ok}
ReadableAndEmpty(F) ==
    [p \in DOMAIN F |-> IF p \in Unreadable(F) THEN FileEntry(0, TRUE) ELSE F[p]]

C11_UnreadableFile ==
    Returned =>
        /\ \A p \in Unreadable(fs) : count_lines(fs, p) = 0
        /\ \A n \in NodesOf(structure) :
               (n.type = "dir" /\ ~IsMarked(n) /\ Depth(n) < max_depth) =>
                   \A item \in iterdir(fs, n.path) :
                       Real(fs, item) \in Unreadable(fs) =>
                           \E c \in ChildNodes(n.children) :
                               c.path = item /\ c.type = "file" /\ c.line_count = 0
        /\ structure = Tree(ReadableAndEmpty(fs))

\* C11's case: src/a.py (10 lines, countable) cannot be read; its node is in the
\* tree with line_count 0 beside src/b.py, whose 5 lines are all src counts.
C11_Witness ==
    /\ Returned
    /\ project_path \o <<N_src, N_a_py>> \in Unreadable(fs)
    /\ \E s \in ChildNodes(structure.children) :
           /\ s.name = N_src /\ s.line_count = 5
           /\ \E c \in ChildNodes(s.children) : c.name = N_a_py /\ c.line_count = 0
           /\ \E c \in ChildNodes(s.children) : c.name = N_b_py /\ c.line_count = 5

----------------------------------------------------------------------------
\* C12. calculate_stats returns: directories = the number of directory nodes, the
\* root and the marked ones included; total_files = the number of file nodes;
\* code_files = the number of file nodes with line_count > 0; total_lines = the
\* sum of their line_count; by_language = per lower-cased extension, the sum of
\* line_count over those of them with that extension.  Markers add nothing.

RECURSIVE SumOfLineCounts(_)
SumOfLineCounts(nodes) ==
    IF nodes = {} THEN 0
    ELSE LET n == CHOOSE x \in nodes : TRUE
         IN n.line_count + SumOfLineCounts(nodes \ {n})

LowerExtension(node) == Lower(LStripDot(Suffix(node.name)))

\* calculate_stats has just returned (line 247)
Aggregated == pc = "print_stats"

C12_Stats ==
    Aggregated =>
        LET nodes == NodesOf(structure)
            files == {n \in nodes : n.type = "file"}
            code == {n \in files : n.line_count > 0}
        IN /\ stats.directories = Cardinality({n \in nodes : n.type = "dir"})
           /\ stats.total_files = Cardinality(files)
           /\ stats.code_files = Cardinality(code)
           /\ stats.total_lines = SumOfLineCounts(code)
           /\ DOMAIN stats.by_language = {LowerExtension(n) : n \in code}
           /\ \A e \in DOMAIN stats.by_language :
                  stats.by_language[e] =
                      SumOfLineCounts({n \in code : LowerExtension(n) = e})

\* C12's case: a tree with a marked directory, an uncounted file and four files
\* of extension py (10, 5, 6 and 2 lines), one of them spelt Z.PY, summed under
\* the key py.
C12_Witness ==
    /\ Aggregated
    /\ \E n \in NodesOf(structure) : n.type = "dir" /\ IsMarked(n)
    /\ \E n \in NodesOf(structure) : n.type = "file" /\ n.line_count = 0
    /\ \E n \in NodesOf(structure) : n.name = N_Z_PY /\ n.line_count = 6
    /\ N_py \in DOMAIN stats.by_language
    /\ stats.by_language[N_py] = 23
    /\ stats.code_files > 3

----------------------------------------------------------------------------
\* C13. Termination: analyze_directory makes finitely many calls on every file
\* system, one with a cycle of symbolic links included, and no call is made at
\* a current_depth greater than max_depth + 1.

\* main's call of line 244 has returned
Analyzed == pc = "stats"

C13_RecursionBound ==
    Analyzed =>
        LET calls == Calls(fs, project_path, max_depth, include_hidden, 0)
        IN /\ IsFiniteSet(calls)
           /\ \A c \in calls : c[2] <= max_depth + 1
           /\ structure # None => \A n \in NodesOf(structure) : <<n.path, Depth(n)>> \in calls

\* C13's case: src/loop links back to the root and the traversal went round the
\* cycle, passing loop a second time where the depth bound stopped it.
C13_Witness ==
    /\ Analyzed
    /\ project_path \o <<N_src, N_loop>> \in DOMAIN fs
    /\ \E c \in Calls(fs, project_path, max_depth, include_hidden, 0) :
           /\ c[2] = max_depth + 1
           /\ Cardinality({i \in DOMAIN c[1] : c[1][i] = N_loop}) >= 2

----------------------------------------------------------------------------
\* The renderers and the aggregator called on one tree, any number of times up
\* to MaxCalls and in any order.  output keeps each call: the function called
\* (text) and what it returned (body).

MaxCalls == 3

\* a tree as line 244 returns it (None left out: no renderer accepts it)
InitRender ==
    /\ root_name \in RootNames
    /\ fs \in {MkFs(root_name, S, bad) : S \in FewEntrySets, bad \in BadSets}
    /\ max_depth \in 0..MaxDepthBound
    /\ include_hidden \in BOOLEAN
    /\ Tree(fs) # None
    /\ structure = Tree(fs)
    /\ pc = "render"
    /\ stats = None
    /\ output = <<>>
    /\ exit_code = None
    /\ run = 1
    /\ prev = None
    /\ entry_points = None /\ config_files = None /\ routes = None /\ endpoints_info = None
    /\ repository = None /\ changes = None

CallTextTree ==
    /\ pc = "render"
    /\ Len(output) < MaxCalls
    /\ output' = Append(output, [text |-> "generate_text_tree", body |-> generate_text_tree(structure, <<>>, TRUE)])
    /\ structure' = TreeAfterTextTree(structure)
    /\ UNCHANGED <<fs, root_name, max_depth, include_hidden, pc, stats, exit_code, run, prev>>
    /\ UNCHANGED <<entry_points, config_files, routes, endpoints_info, repository, changes>>

CallMermaidTree ==
    /\ pc = "render"
    /\ Len(output) < MaxCalls
    /\ output' = Append(output, [text |-> "generate_mermaid_tree", body |-> generate_mermaid_tree(structure, 0)])
    /\ structure' = TreeAfterMermaidTree(structure)
    /\ UNCHANGED <<fs, root_name, max_depth, include_hidden, pc, stats, exit_code, run, prev>>
    /\ UNCHANGED <<entry_points, config_files, routes, endpoints_info, repository, changes>>

CallStats ==
    /\ pc = "render"
    /\ Len(output) < MaxCalls
    /\ output' = Append(output, [text |-> "calculate_stats", body |-> calculate_stats(structure)])
    /\ structure' = TreeAfterStats(structure)
    /\ UNCHANGED <<fs, root_name, max_depth, include_hidden, pc, stats, exit_code, run, prev>>
    /\ UNCHANGED <<entry_points, config_files, routes, endpoints_info, repository, changes>>

NextRender ==
    \/ CallTextTree
    \/ CallMermaidTree
    \/ CallStats

SpecRender == InitRender /\ [][NextRender]_vars

----------------------------------------------------------------------------
\* The JSON projection of a tree: what json.dump (lines 277-280) writes for
\* 'structure' and what json.load gives back.  A JSON value is tagged with its
\* kind; an object keeps its members in the order the dictionary holds them.

Json(kind, value) == [json |-> kind, value |-> value]

\* (mutant) a serializer that writes the children of the root only
RECURSIVE ToJsonItems_Shallow(_)
ToJsonItems_Shallow(children) ==
    IF children = <<>> THEN <<>>
    ELSE <<IF IsStr(Head(children))
           THEN Json("string", Head(children).value)
           ELSE Json("object", << <<"name", Json("string", Head(children).name)>>,
                           <<"type", Json("string", Head(children).type)>>,
                           <<"path", Json("string", Head(children).path)>>,
                           <<"children", Json("array", <<>>)>>,
                           <<"line_count", Json("number", Head(children).line_count)>>,
                           <<"is_key", Json("boolean", Head(children).is_key)>> >>)>>
         \o ToJsonItems_Shallow(Tail(children))

RECURSIVE ToJson(_), ToJsonItems(_)
\* a node dictionary as a JSON object, a marker as a JSON string
ToJsonItems(children) ==
    IF children = <<>> THEN <<>>
    ELSE <<IF IsStr(Head(children))
           THEN Json("string", Head(children).value)
           ELSE ToJson(Head(children))>>
         \o ToJsonItems(Tail(children))

ToJson(node) ==
    Json("object", << <<"name", Json("string", node.name)>>,
               <<"type", Json("string", node.type)>>,
               <<"path", Json("string", node.path)>>,
               <<"children", Json("array", ToJsonItems(node.children))>>,
               <<"line_count", Json("number", node.line_count)>>,
               <<"is_key", Json("boolean", node.is_key)>> >>)

\* the value of the member named key of a JSON object
Member(object, key) ==
    LET i == CHOOSE k \in DOMAIN object.value : object.value[k][1] = key
    IN object.value[i][2]

RECURSIVE FromJson(_), FromJsonItems(_)
\* json.load: an object becomes a dictionary, an array a list, a string a str
FromJson(object) ==
    [name |-> Member(object, "name").value,
     type |-> Member(object, "type").value,
     path |-> Member(object, "path").value,
     children |-> FromJsonItems(Member(object, "children").value),
     line_count |-> Member(object, "line_count").value,
     is_key |-> Member(object, "is_key").value]

FromJsonItems(items) ==
    IF items = <<>> THEN <<>>
    ELSE <<IF Head(items).json = "string"
           THEN [type |-> "str", value |-> Head(items).value]
           ELSE FromJson(Head(items))>>
         \o FromJsonItems(Tail(items))

----------------------------------------------------------------------------
\* What a run has printed once its three sections are out (lines 250-272): the
\* banner of each section and, after it, the section itself.
SectionsPrinted ==
    <<Printed("Analyzing"),
      Printed("PROJECT STATISTICS"), PrintedValue(stats),
      Printed("DIRECTORY TREE"), PrintedValue(generate_text_tree(structure, <<>>, TRUE)),
      Printed("MERMAID TREE DIAGRAM"), Printed("(fence) mermaid"), Printed("graph TD"),
      PrintedValue(generate_mermaid_tree(structure, 0)), Printed("(fence)")>>

\* C16. Console ordering: a run that passes the root-exists check and completes
\* has printed the three sections, each after its banner, in the order
\* statistics, text tree, diagram tree; the file system changes only by the
\* artifact being written, after the three sections, and the artifact is then
\* that of this run's structure and stats whatever was there before.
C16_ConsoleOrder ==
    [][ /\ fs' # fs => pc = "write" /\ output = SectionsPrinted
        /\ pc' = "done" =>
              /\ output = SectionsPrinted
              /\ output' = Append(output, Printed("Structure saved"))
              /\ output_file \in DOMAIN fs'
              /\ fs'[output_file] = FileEntry(ArtifactLines(structure, stats), TRUE)
              /\ \A p \in DOMAIN fs \ {output_file} : p \in DOMAIN fs' /\ fs'[p] = fs[p]
      ]_vars

\* C16's case: a second run has completed over the artifact of the first, and
\* the artifact it wrote differs from the one that was there.
C16_Witness ==
    /\ pc = "done"
    /\ run = 2
    /\ prev # None
    /\ output = Append(SectionsPrinted, Printed("Structure saved"))
    /\ fs[output_file] = FileEntry(ArtifactLines(structure, stats), TRUE)
    /\ fs[output_file] # FileEntry(ArtifactLines(prev.structure, prev.stats), TRUE)
    /\ stats.total_files >= 3

----------------------------------------------------------------------------
\* The listing a text tree is to show, read off the tree: in depth-first order,
\* an item for each node, for the annotation of each key directory and for
\* each marker.  flags holds, from the root down to the item's node, whether
\* each is the last of its parent's children (the root counts as last).

RECURSIVE Listing(_, _), ListingChildren(_, _, _)
Listing(node, flags) ==
    <<[kind |-> "node", of |-> node, flags |-> flags]>>
    \o (IF node.type = "dir" /\ node.is_key
        THEN <<[kind |-> "annotation", of |-> node, flags |-> flags]>> ELSE <<>>)
    \o ListingChildren(node.children, 1, flags)

ListingChildren(children, i, flags) ==
    IF i > Len(children) THEN <<>>
    ELSE (IF IsStr(children[i])
          THEN <<[kind |-> "marker", of |-> children[i], flags |-> flags]>>
          ELSE Listing(children[i], Append(flags, i = Len(children))))
         \o ListingChildren(children, i + 1, flags)

\* the indentation below nodes with these flags: blank under a last sibling,
\* a bar under a mid sibling
RECURSIVE Indentation(_)
Indentation(flags) ==
    IF flags = <<>> THEN <<>>
    ELSE (IF Head(flags) THEN EXTENSION_LAST ELSE EXTENSION_MID) \o Indentation(Tail(flags))

\* the line an item of the listing is to be shown as
LineOf(item) ==
    CASE item.kind = "node" ->
            TextLine(Indentation(Front(item.flags))
                     \o (IF Last(item.flags) THEN CONNECTOR_LAST ELSE CONNECTOR_MID)
                     \o item.of.name, "")
      [] item.kind = "annotation" ->
            TextLine(Indentation(item.flags) \o <<35, 32>>, KEY_DIRECTORIES[Lower(item.of.name)])
      [] item.kind = "marker" ->
            TextLine(Indentation(item.flags), item.of.value)

\* C17. Text tree: generate_text_tree gives, depth-first, one line per node,
\* with the last-sibling connector exactly when the node is the last of its
\* parent's children (the root, which has no parent, takes the last-sibling
\* connector); one annotation line with the description right after each key
\* directory; one literal line for each marker.  The number of lines is the
\* number of nodes plus the number of key directories plus that of markers.
C17_TextTree ==
    Returned =>
        LET lines == generate_text_tree(structure, <<>>, TRUE)
            listing == Listing(structure, <<TRUE>>)
            nodes == NodesOf(structure)
        IN /\ Len(lines) = Cardinality(nodes)
                           + Cardinality({n \in nodes : n.type = "dir" /\ n.is_key})
                           + Cardinality({n \in nodes : IsMarked(n)})
           /\ Len(lines) = Len(listing)
           /\ \A i \in DOMAIN lines : lines[i] = LineOf(listing[i])

\* C17's case: the tree shown has a key directory that is not the last of its
\* siblings, with children of its own, and a directory cut short by a marker.
C17_Witness ==
    /\ Returned
    /\ \E i \in DOMAIN structure.children :
           /\ i < Len(structure.children)
           /\ structure.children[i].type = "dir"
           /\ structure.children[i].is_key
           /\ Len(structure.children[i].children) >= 2
    /\ \E n \in NodesOf(structure) : IsMarked(n)
    /\ Len(generate_text_tree(structure, <<>>, TRUE)) >= 8

----------------------------------------------------------------------------
\* the sum of the values of a by_language dictionary
RECURSIVE SumOfValues(_)
SumOfValues(by_language) ==
    IF DOMAIN by_language = {} THEN 0
    ELSE LET e == CHOOSE x \in DOMAIN by_language : TRUE
         IN by_language[e]
            + SumOfValues([x \in DOMAIN by_language \ {e} |-> by_language[x]])

\* C19. Builder and aggregator agree: for every tree analyze_directory returns,
\* calculate_stats gives total_lines equal to the root node's line_count, the
\* values of by_language sum to total_lines, and every key of by_language is
\* one of CODE_EXTENSIONS.
C19_BuilderAggregatorAgree ==
    Aggregated =>
        /\ stats.total_lines = structure.line_count
        /\ SumOfValues(stats.by_language) = stats.total_lines
        /\ DOMAIN stats.by_language \subseteq CODE_EXTENSIONS

\* C19's case: lines counted at two levels of the tree under two extensions,
\* beside files that are not counted and a directory cut short by a marker.
C19_Witness ==
    /\ Aggregated
    /\ Cardinality(DOMAIN stats.by_language) >= 2
    /\ stats.total_lines >= 19
    /\ stats.total_files > stats.code_files
    /\ \E n \in ChildNodes(structure.children) : n.type = "dir" /\ n.line_count > 0
    /\ \E n \in NodesOf(structure) : IsMarked(n)

----------------------------------------------------------------------------
\* commit_helper.py

\* str.strip(): the white space Python strips from both ends
IsSpace(c) == c \in (9..13) \cup (28..32)

RECURSIVE LStrip(_)
LStrip(s) == IF s # <<>> /\ IsSpace(Head(s)) THEN LStrip(Tail(s)) ELSE s

RECURSIVE RStrip(_)
RStrip(s) == IF s # <<>> /\ IsSpace(Last(s)) THEN RStrip(Front(s)) ELSE s

StripSpace(s) == RStrip(LStrip(s))

\* s[lo:hi] with 0 <= lo <= hi, the slice cut at the end of s (s[lo:] is
\* s[lo:len(s)])
Slice(s, lo, hi) == SubSeq(s, lo + 1, IF hi < Len(s) THEN hi ELSE Len(s))

\* str.split(sep) for a one-character sep
RECURSIVE Split(_, _)
Split(s, sep) ==
    IF \A i \in DOMAIN s : s[i] # sep THEN <<s>>
    ELSE LET i == CHOOSE k \in DOMAIN s : s[k] = sep /\ \A j \in 1..(k - 1) : s[j] # sep
         IN <<SubSeq(s, 1, i - 1)>> \o Split(SubSeq(s, i + 1, Len(s)), sep)

\* str.startswith(c) for a one-character c
StartsWithChar(s, c) == s # <<>> /\ s[1] = c

\* The short status of a path, as git status --porcelain prints it: X is the
\* state of the index, Y that of the working tree; "??" is an untracked path.
StatusCodes ==
    { <<77, 32>>,   (* "M ": modified in the index *)
      <<32, 77>>,   (* " M": modified in the working tree only *)
      <<77, 77>>,   (* "MM": modified in the index and again in the working tree *)
      <<65, 32>>,   (* "A ": added to the index *)
      <<65, 77>>,   (* "AM": added to the index, modified in the working tree *)
      <<68, 32>>,   (* "D ": deleted from the index *)
      <<32, 68>>,   (* " D": deleted in the working tree only *)
      <<82, 32>>,   (* "R ": renamed in the index *)
      <<63, 63>> }  (* "??": untracked *)

\* the path has a change in the index
HasIndexChange(entry) == entry.xy[1] \notin {32, 63}

\* the stdout of git status --porcelain: a line "XY name" for each entry
RECURSIVE PorcelainOutput(_)
PorcelainOutput(entries) ==
    IF entries = <<>> THEN <<>>
    ELSE Head(entries).xy \o <<32>> \o Head(entries).name \o <<10>>
         \o PorcelainOutput(Tail(entries))

\* lines 24-35: (success, stdout.strip()) of a git command that prints stdout
run_git_command(success, stdout) == <<success, IF success THEN StripSpace(stdout) ELSE <<>>>>

\* lines 39-44
NoChanges == [added |-> <<>>, modified |-> <<>>, deleted |-> <<>>, renamed |-> <<>>]

\* lines 54-64: the list a line of the status goes to
Classify(acc, line) ==
    LET status == StripSpace(Slice(line, 0, 2))
        filename == StripSpace(Slice(line, 3, Len(line)))
    IN IF StartsWithChar(status, 65) THEN [acc EXCEPT !.added = Append(@, filename)]
       ELSE IF StartsWithChar(status, 77) THEN [acc EXCEPT !.modified = Append(@, filename)]
       ELSE IF StartsWithChar(status, 68) THEN [acc EXCEPT !.deleted = Append(@, filename)]
       ELSE IF StartsWithChar(status, 82) THEN [acc EXCEPT !.renamed = Append(@, filename)]
       ELSE acc

\* lines 50-65: the loop over the lines
RECURSIVE ClassifyLines(_, _)
ClassifyLines(acc, lines) ==
    IF lines = <<>> THEN acc
    ELSE ClassifyLines(IF StripSpace(Head(lines)) = <<>> THEN acc ELSE Classify(acc, Head(lines)),
                       Tail(lines))

\* lines 37-67, on the result of run_git_command(['status', '--porcelain'])
get_staged_changes(success, stdout) ==
    LET result == run_git_command(success, stdout)
    IN IF ~result[1] THEN NoChanges
       ELSE ClassifyLines(NoChanges, Split(result[2], 10))

\* line 182
total_changes(ch) == Len(ch.added) + Len(ch.modified) + Len(ch.deleted) + Len(ch.renamed)

\* lines 127-132: analysis['details']
Details(ch) ==
    (IF ch.added # <<>> THEN <<[text |-> "Add new file(s)", body |-> Len(ch.added)]>> ELSE <<>>)
    \o (IF ch.modified # <<>> THEN <<[text |-> "Modify file(s)", body |-> Len(ch.modified)]>> ELSE <<>>)
    \o (IF ch.deleted # <<>> THEN <<[text |-> "Delete file(s)", body |-> Len(ch.deleted)]>> ELSE <<>>)

\* The repositories the helper is run in: up to MaxEntries paths with a status.
MaxEntries == 2

\* a working directory: whether it is inside a git repository (rev-parse
\* --git-dir succeeds) and the status entries of its paths, one for each path
Repositories ==
    {[git_dir |-> FALSE, status |-> <<>>]}
    \cup {[git_dir |-> TRUE, status |-> s] :
             s \in UNION {{q \in [1..n -> [xy : StatusCodes, name : {N_a_py, N_b_py, N_README_md}]] :
                              \A i, j \in 1..n : i # j => q[i].name # q[j].name}
                          : n \in 0..MaxEntries}}

InitHelper ==
    /\ repository \in Repositories
    /\ changes = None
    /\ pc = "rev_parse"
    /\ output = <<>>
    /\ exit_code = None
    /\ fs = NoFs /\ root_name = N_proj
    /\ max_depth = DefaultMaxDepth /\ include_hidden = FALSE
    /\ structure = None /\ stats = None /\ run = 1 /\ prev = None
    /\ entry_points = None /\ config_files = None /\ routes = None /\ endpoints_info = None

\* lines 175-179
CheckRepository ==
    /\ pc = "rev_parse"
    /\ IF ~repository.git_dir
       THEN /\ output' = Append(output, Printed("Error: Not a git repository"))
            /\ exit_code' = 1
            /\ pc' = "exited"
       ELSE /\ pc' = "get_staged_changes"
            /\ UNCHANGED <<output, exit_code>>
    /\ UNCHANGED <<fs, root_name, max_depth, include_hidden, structure, stats, run, prev,
                 entry_points, config_files, routes, endpoints_info, repository, changes>>

\* lines 181-193; git status itself may fail (the lock of the index is taken)
GetStagedChanges ==
    /\ pc = "get_staged_changes"
    /\ \E success \in BOOLEAN :
        LET ch == get_staged_changes(success, PorcelainOutput(repository.status))
        IN /\ changes' = ch
           /\ IF total_changes(ch) = 0
              THEN /\ output' = Append(output, Printed("No staged changes found"))
                   /\ exit_code' = 1
                   /\ pc' = "exited"
              ELSE /\ output' = Append(output, [text |-> "Found staged changes",
                                                body |-> total_changes(ch)])
                   /\ pc' = "create_commit"
                   /\ UNCHANGED exit_code
    /\ UNCHANGED <<fs, root_name, max_depth, include_hidden, structure, stats, run, prev,
                 entry_points, config_files, routes, endpoints_info, repository>>

\* git commit records the index: a path changed only in the index leaves the
\* status, one changed in the working tree too stays as a working tree change
StatusAfterCommit(status) ==
    LET Left(e) == ~HasIndexChange(e) \/ e.xy[2] # 32
        After(e) == IF HasIndexChange(e) THEN [e EXCEPT !.xy = <<32, e.xy[2]>>] ELSE e
        kept == SelectSeq(status, Left)
    IN [i \in DOMAIN kept |-> After(kept[i])]

\* lines 195-207: the message is generated and git commit is run; git commit
\* fails when the index holds no change
CreateCommit ==
    /\ pc = "create_commit"
    /\ \E success \in BOOLEAN :
        /\ success => \E i \in DOMAIN repository.status : HasIndexChange(repository.status[i])
        /\ IF success
           THEN /\ output' = output \o <<Printed("Generated commit message")>> \o Details(changes)
                                    \o <<Printed("Commit created successfully")>>
                /\ repository' = [repository EXCEPT !.status = StatusAfterCommit(@)]
                /\ exit_code' = 0
                /\ pc' = "done"
           ELSE /\ output' = output \o <<Printed("Generated commit message")>> \o Details(changes)
                                    \o <<Printed("Failed to create commit")>>
                /\ exit_code' = 1
                /\ pc' = "exited"
                /\ UNCHANGED repository
    /\ UNCHANGED <<fs, root_name, max_depth, include_hidden, structure, stats, run, prev,
                 entry_points, config_files, routes, endpoints_info, changes>>

NextHelper ==
    \/ CheckRepository
    \/ GetStagedChanges
    \/ CreateCommit

SpecHelper == InitHelper /\ [][NextHelper]_vars

\* the file names in the four lists of changes
ListedFiles(ch) ==
    {ch.added[i] : i \in DOMAIN ch.added} \cup {ch.modified[i] : i \in DOMAIN ch.modified}
    \cup {ch.deleted[i] : i \in DOMAIN ch.deleted} \cup {ch.renamed[i] : i \in DOMAIN ch.renamed}

\* C20 (as claimed). get_staged_changes reports only staged changes: every file
\* in added/modified/deleted/renamed is a path of the status with a change in
\* the index; a path changed only in the working tree, or untracked, is in
\* none of the four lists and in no "staged changes" total main prints.
C20_StagedOnly_Claimed ==
    pc = "create_commit" =>
        LET status == repository.status
            staged == {i \in DOMAIN status : HasIndexChange(status[i])}
        IN /\ \A f \in ListedFiles(changes) :
                  \E i \in staged : status[i].name = f
           /\ \A i \in DOMAIN status \ staged :
                  status[i].name \notin ListedFiles(changes)
           /\ total_changes(changes) <= Cardinality(staged)

----------------------------------------------------------------------------
\* find_entry_points.py

\* ENTRY_POINT_PATTERNS (lines 23-58), flattened in the order find_entry_points
\* walks it: the key "category - subcategory" and its glob patterns.
ENTRY_POINT_PATTERNS ==
    << [key |-> "Python - main",
       patterns |-> << <<109, 97, 105, 110, 46, 112, 121>> (* main.py *),
                     <<97, 112, 112, 46, 112, 121>> (* app.py *),
                     <<114, 117, 110, 46, 112, 121>> (* run.py *),
                     <<115, 101, 114, 118, 101, 114, 46, 112, 121>> (* server.py *),
                     <<119, 115, 103, 105, 46, 112, 121>> (* wsgi.py *),
                     <<95, 95, 109, 97, 105, 110, 95, 95, 46, 112, 121>> (* __main__.py *) >>],
       [key |-> "Python - cli",
       patterns |-> << <<99, 108, 105, 46, 112, 121>> (* cli.py *) >>],
       [key |-> "JavaScript/TypeScript - main",
       patterns |-> << <<105, 110, 100, 101, 120, 46, 106, 115>> (* index.js *),
                     <<105, 110, 100, 101, 120, 46, 116, 115>> (* index.ts *),
                     <<109, 97, 105, 110, 46, 106, 115>> (* main.js *),
                     <<109, 97, 105, 110, 46, 116, 115>> (* main.ts *),
                     <<97, 112, 112, 46, 106, 115>> (* app.js *),
                     <<97, 112, 112, 46, 116, 115>> (* app.ts *) >>],
       [key |-> "JavaScript/TypeScript - server",
       patterns |-> << <<115, 101, 114, 118, 101, 114, 46, 106, 115>> (* server.js *),
                     <<115, 101, 114, 118, 101, 114, 46, 116, 115>> (* server.ts *) >>],
       [key |-> "JavaScript/TypeScript - cli",
       patterns |-> << <<99, 108, 105, 46, 106, 115>> (* cli.js *),
                     <<99, 108, 105, 46, 116, 115>> (* cli.ts *) >>],
       [key |-> "React - root",
       patterns |-> << <<65, 112, 112, 46, 106, 115, 120>> (* App.jsx *),
                     <<65, 112, 112, 46, 116, 115, 120>> (* App.tsx *),
                     <<105, 110, 100, 101, 120, 46, 106, 115, 120>> (* index.jsx *),
                     <<105, 110, 100, 101, 120, 46, 116, 115, 120>> (* index.tsx *) >>],
       [key |-> "React - entry",
       patterns |-> << <<115, 114, 99, 47, 105, 110, 100, 101, 120, 46, 106, 115>> (* src/index.js *),
                     <<115, 114, 99, 47, 105, 110, 100, 101, 120, 46, 116, 115, 120>> (* src/index.tsx *),
                     <<115, 114, 99, 47, 109, 97, 105, 110, 46, 106, 115, 120>> (* src/main.jsx *),
                     <<115, 114, 99, 47, 109, 97, 105, 110, 46, 116, 115, 120>> (* src/main.tsx *) >>],
       [key |-> "Vue - root",
       patterns |-> << <<65, 112, 112, 46, 118, 117, 101>> (* App.vue *),
                     <<109, 97, 105, 110, 46, 106, 115>> (* main.js *),
                     <<109, 97, 105, 110, 46, 116, 115>> (* main.ts *) >>],
       [key |-> "Vue - entry",
       patterns |-> << <<115, 114, 99, 47, 109, 97, 105, 110, 46, 106, 115>> (* src/main.js *),
                     <<115, 114, 99, 47, 109, 97, 105, 110, 46, 116, 115>> (* src/main.ts *) >>],
       [key |-> "Next.js - pages",
       patterns |-> << <<112, 97, 103, 101, 115, 47, 105, 110, 100, 101, 120, 46, 106, 115>> (* pages/index.js *),
                     <<112, 97, 103, 101, 115, 47, 105, 110, 100, 101, 120, 46, 116, 115, 120>> (* pages/index.tsx *),
                     <<112, 97, 103, 101, 115, 47, 95, 97, 112, 112, 46, 106, 115>> (* pages/_app.js *),
                     <<112, 97, 103, 101, 115, 47, 95, 97, 112, 112, 46, 116, 115, 120>> (* pages/_app.tsx *) >>],
       [key |-> "Next.js - app",
       patterns |-> << <<97, 112, 112, 47, 112, 97, 103, 101, 46, 106, 115>> (* app/page.js *),
                     <<97, 112, 112, 47, 112, 97, 103, 101, 46, 116, 115, 120>> (* app/page.tsx *),
                     <<97, 112, 112, 47, 108, 97, 121, 111, 117, 116, 46, 106, 115>> (* app/layout.js *),
                     <<97, 112, 112, 47, 108, 97, 121, 111, 117, 116, 46, 116, 115, 120>> (* app/layout.tsx *) >>],
       [key |-> "Nuxt - pages",
       patterns |-> << <<112, 97, 103, 101, 115, 47, 105, 110, 100, 101, 120, 46, 118, 117, 101>> (* pages/index.vue *) >>],
       [key |-> "Nuxt - app",
       patterns |-> << <<97, 112, 112, 46, 118, 117, 101>> (* app.vue *) >>],
       [key |-> "Go - main",
       patterns |-> << <<109, 97, 105, 110, 46, 103, 111>> (* main.go *),
                     <<99, 109, 100, 47, 42, 47, 109, 97, 105, 110, 46, 103, 111>> (* cmd/*/main.go *) >>],
       [key |-> "Rust - main",
       patterns |-> << <<109, 97, 105, 110, 46, 114, 115>> (* main.rs *),
                     <<115, 114, 99, 47, 109, 97, 105, 110, 46, 114, 115>> (* src/main.rs *) >>],
       [key |-> "Java - main",
       patterns |-> << <<115, 114, 99, 47, 109, 97, 105, 110, 47, 106, 97, 118, 97, 47, 42, 47, 77, 97, 105, 110, 46, 106, 97, 118, 97>> (* src/main/java/*/Main.java *),
                     <<115, 114, 99, 47, 109, 97, 105, 110, 47, 106, 97, 118, 97, 47, 42, 47, 65, 112, 112, 108, 105, 99, 97, 116, 105, 111, 110, 46, 106, 97, 118, 97>> (* src/main/java/*/Application.java *) >>] >>

\* CONFIG_PATTERNS (lines 62-72): category and its glob patterns.
CONFIG_PATTERNS ==
    << [key |-> "General",
       patterns |-> << <<46, 101, 110, 118, 42>> (* .env* *),
                     <<42, 46, 99, 111, 110, 102, 105, 103, 46, 106, 115>> (* *.config.js *),
                     <<42, 46, 99, 111, 110, 102, 105, 103, 46, 116, 115>> (* *.config.ts *) >>],
       [key |-> "JavaScript/TypeScript",
       patterns |-> << <<116, 115, 99, 111, 110, 102, 105, 103, 46, 106, 115, 111, 110>> (* tsconfig.json *),
                     <<106, 115, 99, 111, 110, 102, 105, 103, 46, 106, 115, 111, 110>> (* jsconfig.json *),
                     <<46, 101, 115, 108, 105, 110, 116, 114, 99, 42>> (* .eslintrc* *),
                     <<46, 112, 114, 101, 116, 116, 105, 101, 114, 114, 99, 42>> (* .prettierrc* *) >>],
       [key |-> "Python",
       patterns |-> << <<115, 101, 116, 117, 112, 46, 112, 121>> (* setup.py *),
                     <<112, 121, 112, 114, 111, 106, 101, 99, 116, 46, 116, 111, 109, 108>> (* pyproject.toml *),
                     <<112, 121, 116, 101, 115, 116, 46, 105, 110, 105>> (* pytest.ini *),
                     <<116, 111, 120, 46, 105, 110, 105>> (* tox.ini *),
                     <<46, 102, 108, 97, 107, 101, 56>> (* .flake8 *) >>],
       [key |-> "Go",
       patterns |-> << <<103, 111, 46, 109, 111, 100>> (* go.mod *),
                     <<103, 111, 46, 115, 117, 109>> (* go.sum *) >>],
       [key |-> "Rust",
       patterns |-> << <<67, 97, 114, 103, 111, 46, 116, 111, 109, 108>> (* Cargo.toml *),
                     <<67, 97, 114, 103, 111, 46, 108, 111, 99, 107>> (* Cargo.lock *) >>],
       [key |-> "Java",
       patterns |-> << <<112, 111, 109, 46, 120, 109, 108>> (* pom.xml *),
                     <<98, 117, 105, 108, 100, 46, 103, 114, 97, 100, 108, 101>> (* build.gradle *),
                     <<97, 112, 112, 108, 105, 99, 97, 116, 105, 111, 110, 46, 112, 114, 111, 112, 101, 114, 116, 105, 101, 115>> (* application.properties *),
                     <<97, 112, 112, 108, 105, 99, 97, 116, 105, 111, 110, 46, 121, 109, 108>> (* application.yml *) >>],
       [key |-> "Testing",
       patterns |-> << <<106, 101, 115, 116, 46, 99, 111, 110, 102, 105, 103, 46, 42>> (* jest.config.* *),
                     <<118, 105, 116, 101, 115, 116, 46, 99, 111, 110, 102, 105, 103, 46, 42>> (* vitest.config.* *),
                     <<99, 121, 112, 114, 101, 115, 115, 46, 99, 111, 110, 102, 105, 103, 46, 42>> (* cypress.config.* *),
                     <<112, 108, 97, 121, 119, 114, 105, 103, 104, 116, 46, 99, 111, 110, 102, 105, 103, 46, 42>> (* playwright.config.* *) >>],
       [key |-> "Docker",
       patterns |-> << <<68, 111, 99, 107, 101, 114, 102, 105, 108, 101>> (* Dockerfile *),
                     <<100, 111, 99, 107, 101, 114, 45, 99, 111, 109, 112, 111, 115, 101, 46, 121, 109, 108>> (* docker-compose.yml *),
                     <<100, 111, 99, 107, 101, 114, 45, 99, 111, 109, 112, 111, 115, 101, 46, 121, 97, 109, 108>> (* docker-compose.yaml *) >>],
       [key |-> "CI/CD",
       patterns |-> << <<46, 103, 105, 116, 108, 97, 98, 45, 99, 105, 46, 121, 109, 108>> (* .gitlab-ci.yml *),
                     <<46, 103, 105, 116, 104, 117, 98, 47, 119, 111, 114, 107, 102, 108, 111, 119, 115, 47, 42, 46, 121, 109, 108>> (* .github/workflows/*.yml *),
                     <<46, 116, 114, 97, 118, 105, 115, 46, 121, 109, 108>> (* .travis.yml *),
                     <<99, 105, 114, 99, 108, 101, 99, 105>> (* circleci *) >>] >>

\* route_patterns (lines 141-154)
route_patterns ==
    << <<114, 111, 117, 116, 101, 115, 46, 112, 121>> (* routes.py *),
       <<117, 114, 108, 115, 46, 112, 121>> (* urls.py *),
       <<118, 105, 101, 119, 115, 46, 112, 121>> (* views.py *),
       <<97, 112, 112, 47, 114, 111, 117, 116, 101, 115, 46, 112, 121>> (* app/routes.py *),
       <<114, 111, 117, 116, 101, 115, 46, 106, 115>> (* routes.js *),
       <<114, 111, 117, 116, 101, 115, 46, 116, 115>> (* routes.ts *),
       <<114, 111, 117, 116, 101, 114, 46, 106, 115>> (* router.js *),
       <<114, 111, 117, 116, 101, 114, 46, 116, 115>> (* router.ts *),
       <<112, 97, 103, 101, 115, 47, 42, 42, 47, 42, 46, 106, 115>> (* pages/**/*.js *),
       <<112, 97, 103, 101, 115, 47, 42, 42, 47, 42, 46, 116, 115, 120>> (* pages/**/*.tsx *),
       <<97, 112, 112, 47, 42, 42, 47, 112, 97, 103, 101, 46, 106, 115>> (* app/**/page.js *),
       <<97, 112, 112, 47, 42, 42, 47, 112, 97, 103, 101, 46, 116, 115, 120>> (* app/**/page.tsx *),
       <<112, 97, 103, 101, 115, 47, 42, 42, 47, 42, 46, 118, 117, 101>> (* pages/**/*.vue *),
       <<42, 42, 47, 114, 111, 117, 116, 101, 115, 46, 106, 115>> (* **/routes.js *),
       <<42, 42, 47, 114, 111, 117, 116, 101, 115, 46, 116, 115, 120>> (* **/routes.tsx *),
       <<114, 111, 117, 116, 101, 114, 47, 42, 46, 106, 115>> (* router/*.js *),
       <<114, 111, 117, 116, 101, 114, 47, 42, 46, 116, 115>> (* router/*.ts *) >>

\* the names of the entries of the project the finder is run on
N ==
    [ main_py |-> <<109, 97, 105, 110, 46, 112, 121>>  (* main.py *),
      dotenv |-> <<46, 101, 110, 118>>  (* .env *),
      routes_py |-> <<114, 111, 117, 116, 101, 115, 46, 112, 121>>  (* routes.py *),
      routes_js |-> <<114, 111, 117, 116, 101, 115, 46, 106, 115>>  (* routes.js *),
      app |-> <<97, 112, 112>>  (* app *),
      router |-> <<114, 111, 117, 116, 101, 114>>  (* router *),
      index_js |-> <<105, 110, 100, 101, 120, 46, 106, 115>>  (* index.js *),
      cmd |-> <<99, 109, 100>>  (* cmd *),
      tool |-> <<116, 111, 111, 108>>  (* tool *),
      main_go |-> <<109, 97, 105, 110, 46, 103, 111>>  (* main.go *) ]

\* the name of the artifact (line 304)
N_entry_artifact == <<46, 99, 111, 100, 101, 98, 97, 115, 101, 45, 101, 110, 116, 114, 121, 45, 112, 111, 105, 110, 116, 115, 46, 106, 115, 111, 110>>   \* ".codebase-entry-points.json"

\* the alternatives of the method group (get|post|put|delete|patch)
METHODS == << <<103, 101, 116>> (* get *), <<112, 111, 115, 116>> (* post *), <<112, 117, 116>> (* put *), <<100, 101, 108, 101, 116, 101>> (* delete *), <<112, 97, 116, 99, 104>> (* patch *) >>

\* A pattern of find_api_endpoints: the literal text before the method group,
\* the group's alternatives (none when the pattern has no such group), the
\* literal text after it; then comes ['"]([^'"]+)['"] in every pattern.
\* python_patterns (lines 172-179)
python_patterns ==
    << [before |-> <<64, 97, 112, 112, 46, 114, 111, 117, 116, 101, 40>>, methods |-> <<>>, after |-> <<>>],  (* @app.route( *)
       [before |-> <<64, 98, 112, 46, 114, 111, 117, 116, 101, 40>>, methods |-> <<>>, after |-> <<>>],  (* @bp.route( *)
       [before |-> <<64, 114, 111, 117, 116, 101, 114, 46>>, methods |-> METHODS, after |-> <<40>>],  (* @router.<method>( *)
       [before |-> <<64, 97, 112, 105, 46>>, methods |-> METHODS, after |-> <<40>>],  (* @api.<method>( *)
       [before |-> <<112, 97, 116, 104, 40>>, methods |-> <<>>, after |-> <<>>],  (* path( *)
       [before |-> <<117, 114, 108, 40, 114>>, methods |-> <<>>, after |-> <<>>] >>  (* url(r *)

\* js_patterns (lines 195-198)
js_patterns ==
    << [before |-> <<97, 112, 112, 46>>, methods |-> METHODS, after |-> <<40>>],  (* app.<method>( *)
       [before |-> <<114, 111, 117, 116, 101, 114, 46>>, methods |-> METHODS, after |-> <<40>>] >>  (* router.<method>( *)

\* what the files of the project hold
CONTENT ==
    [ \* '@app.route(\'/users\')\n@router.get("/items")\n'
      flask |->
          <<64, 97, 112, 112, 46, 114, 111, 117, 116, 101, 40, 39, 47, 117, 115, 101, 114, 115, 39, 41, 10, 64, 114, 111, 117, 116, 101, 114, 46, 103, 101, 116, 40, 34, 47, 105, 116, 101, 109, 115, 34, 41, 10>>,
      \* "router.post('/login', h)\napp.get('/x"
      express |->
          <<114, 111, 117, 116, 101, 114, 46, 112, 111, 115, 116, 40, 39, 47, 108, 111, 103, 105, 110, 39, 44, 32, 104, 41, 10, 97, 112, 112, 46, 103, 101, 116, 40, 39, 47, 120>>,
      \* "path('admin/', a)\nurl(r'^x$', v)\n"
      django |->
          <<112, 97, 116, 104, 40, 39, 97, 100, 109, 105, 110, 47, 39, 44, 32, 97, 41, 10, 117, 114, 108, 40, 114, 39, 94, 120, 36, 39, 44, 32, 118, 41, 10>>,
      \* 'x = 1\n'
      plain |->
          <<120, 32, 61, 32, 49, 10>> ]

\* A file with text in it (the finder reads the text of route files).
SourceFile(content, ok) == [kind |-> "file", lines |-> 0, ok |-> ok, target |-> <<>>, content |-> content]

\* Path.glob / Path.rglob match a name against a pattern: '*' stands for any
\* run of characters, every other character of these patterns for itself.
RECURSIVE GlobMatch(_, _)
GlobMatch(pattern, name) ==
    IF pattern = <<>> THEN name = <<>>
    ELSE IF Head(pattern) = 42
         THEN GlobMatch(Tail(pattern), name)
              \/ (name # <<>> /\ GlobMatch(pattern, Tail(name)))
         ELSE name # <<>> /\ Head(name) = Head(pattern) /\ GlobMatch(Tail(pattern), Tail(name))

\* base_dir.glob(file_pattern): the entries of base_dir whose name matches
glob(F, base_dir, file_pattern) ==
    IF is_dir(F, base_dir)
    THEN {p \in iterdir(F, base_dir) : GlobMatch(file_pattern, Last(p))}
    ELSE {}

\* project_path.rglob(pattern): the entries anywhere beneath project_dir whose
\* name matches
rglob(F, project_dir, pattern) ==
    {p \in DOMAIN F : /\ Len(p) > Len(project_dir)
                      /\ SubSeq(p, 1, Len(project_dir)) = project_dir
                      /\ GlobMatch(pattern, Last(p))}

\* lines 87-102: the walk down the directory parts of a pattern; what is found
\* with file_pattern once the walk ends
RECURSIVE WalkParts(_, _, _, _)
WalkParts(F, base_dir, parts, file_pattern) ==
    IF parts = <<>>
    THEN (IF exists(F, base_dir) THEN glob(F, base_dir, file_pattern) ELSE {})
    ELSE IF Head(parts) = <<42>>
         THEN (IF exists(F, base_dir) /\ is_dir(F, base_dir)
               THEN UNION {glob(F, md, file_pattern) : md \in {d \in iterdir(F, base_dir) : is_dir(F, d)}}
               ELSE {})
         ELSE IF ~exists(F, base_dir \o <<Head(parts)>>) THEN {}
              ELSE WalkParts(F, base_dir \o <<Head(parts)>>, Tail(parts), file_pattern)

\* lines 79-105: what one pattern finds
FoundByPattern(F, project_dir, pattern) ==
    IF \E i \in DOMAIN pattern : pattern[i] = 47
    THEN LET parts == Split(pattern, 47)
         IN WalkParts(F, project_dir, Front(parts), Last(parts))
    ELSE rglob(F, project_dir, pattern)

\* the order of paths: part by part, each part in the order of strings
RECURSIVE PathLess(_, _)
PathLess(p, q) ==
    IF p = <<>> THEN q # <<>>
    ELSE IF q = <<>> THEN FALSE
         ELSE IF Head(p) = Head(q) THEN PathLess(Tail(p), Tail(q))
              ELSE StrLess(Head(p), Head(q))

\* sorted(set(found))
RECURSIVE SortedPaths(_)
SortedPaths(S) ==
    IF S = {} THEN <<>>
    ELSE LET least == CHOOSE p \in S : \A q \in S \ {p} : PathLess(p, q)
         IN <<least>> \o SortedPaths(S \ {least})

\* lines 75-107
find_files_by_pattern(F, project_dir, patterns) ==
    SortedPaths(UNION {FoundByPattern(F, project_dir, patterns[i]) : i \in DOMAIN patterns})

\* lines 114-119 and 128-131: a dictionary, as its items in insertion order,
\* with an item for each key of the table whose patterns find something
RECURSIVE FindByTable(_, _, _)
FindByTable(F, project_dir, table) ==
    IF table = <<>> THEN <<>>
    ELSE LET found == find_files_by_pattern(F, project_dir, Head(table).patterns)
         IN (IF found # <<>> THEN <<[key |-> Head(table).key, files |-> found]>> ELSE <<>>)
            \o FindByTable(F, project_dir, Tail(table))

\* lines 110-121
find_entry_points(F, project_dir) == FindByTable(F, project_dir, ENTRY_POINT_PATTERNS)

\* lines 124-133
find_config_files(F, project_dir) == FindByTable(F, project_dir, CONFIG_PATTERNS)

\* lines 136-160
find_routes(F, project_dir) ==
    FindByTable(F, project_dir, <<[key |-> "Route definitions", patterns |-> route_patterns]>>)

\* str.upper(), on ASCII
Upper(s) == [i \in 1..Len(s) |-> IF s[i] \in 97..122 THEN s[i] - 32 ELSE s[i]]

\* the text literal stands in content at position pos
LiteralAt(content, pos, literal) ==
    /\ pos + Len(literal) - 1 <= Len(content)
    /\ \A i \in 1..Len(literal) : content[pos + i - 1] = literal[i]

\* A match of a pattern starting at pos: the method group, the path group and
\* the position after the match; None when the pattern does not match there.
\* A quote ['"] is the code point 39 or 34.
\* ([^'"]+ takes every character up to the next quote, and needs one at least.)
MatchAt(content, pos, pattern) ==
    IF ~LiteralAt(content, pos, pattern.before) THEN None
    ELSE LET p1 == pos + Len(pattern.before)
             alts == {k \in DOMAIN pattern.methods : LiteralAt(content, p1, pattern.methods[k])}
             method == IF alts = {} THEN <<>> ELSE pattern.methods[CHOOSE k \in alts : TRUE]
             p2 == p1 + Len(method)
             p3 == p2 + Len(pattern.after)
             quotes == {q \in (p3 + 1)..Len(content) : content[q] \in {39, 34}}
         IN IF pattern.methods # <<>> /\ alts = {} THEN None
            ELSE IF ~LiteralAt(content, p2, pattern.after) THEN None
            ELSE IF ~(p3 <= Len(content) /\ content[p3] \in {39, 34}) THEN None
            ELSE IF quotes = {} THEN None
            ELSE LET q == CHOOSE x \in quotes : \A y \in quotes : x <= y
                 IN IF q = p3 + 1 THEN None
                    ELSE [type |-> "match", method |-> method,
                          path |-> SubSeq(content, p3 + 1, q - 1), end |-> q + 1]

\* re.findall(pattern, content): the matches from left to right, each search
\* starting where the match before it ended
RECURSIVE FindAll(_, _, _)
FindAll(content, pos, pattern) ==
    IF pos > Len(content) THEN <<>>
    ELSE LET m == MatchAt(content, pos, pattern)
         IN IF m = None THEN FindAll(content, pos + 1, pattern)
            ELSE <<m>> \o FindAll(content, m.end, pattern)

\* line 191 / 208: str(file_path.relative_to(file_path.parents[-2])), the path
\* below the topmost directory (the project lies directly under the root '/')
Source(file_path) == Tail(file_path)

\* lines 181-192: the endpoints of the matches of the Python patterns
RECURSIVE PythonEndpoints(_, _, _)
PythonEndpoints(content, file_path, patterns) ==
    IF patterns = <<>> THEN <<>>
    ELSE LET matches == FindAll(content, 1, Head(patterns))
         IN [i \in DOMAIN matches |->
                [method |-> <<71, 69, 84>> (* 'GET' *), path |-> matches[i].path,
                 source |-> Source(file_path)]]
            \o PythonEndpoints(content, file_path, Tail(patterns))

\* lines 200-209: the endpoints of the matches of the JavaScript patterns
RECURSIVE JsEndpoints(_, _, _)
JsEndpoints(content, file_path, patterns) ==
    IF patterns = <<>> THEN <<>>
    ELSE LET matches == FindAll(content, 1, Head(patterns))
         IN [i \in DOMAIN matches |->
                [method |-> Upper(matches[i].method), path |-> matches[i].path,
                 source |-> Source(file_path)]]
            \o JsEndpoints(content, file_path, Tail(patterns))

\* lines 163-214; open() raises on a directory or an unreadable file, and the
\* except clause turns that into no endpoints
find_api_endpoints(F, file_path) ==
    LET e == F[file_path]
    IN IF e.kind # "file" \/ ~e.ok THEN <<>>
       ELSE PythonEndpoints(e.content, file_path, python_patterns)
            \o JsEndpoints(e.content, file_path, js_patterns)

\* lines 221-223
RECURSIVE EndpointsOf(_, _)
EndpointsOf(F, route_files) ==
    IF route_files = <<>> THEN <<>>
    ELSE find_api_endpoints(F, Head(route_files)) \o EndpointsOf(F, Tail(route_files))

\* lines 217-228
analyze_routes(F, route_files) ==
    LET endpoints == EndpointsOf(F, Slice(route_files, 0, 10))
    IN [total |-> Len(endpoints), endpoints |-> Slice(endpoints, 0, 20)]

\* lines 307-311: a dictionary of path lists as a JSON object of string arrays
DictToJson(items) ==
    Json("object", [i \in DOMAIN items |->
                <<items[i].key,
                  Json("array", [j \in DOMAIN items[i].files |-> Json("string", items[i].files[j])])>>])

\* lines 307-311: what json.dump writes
EntryPointsJson(ep, cf, rt) ==
    Json("object", << <<"entry_points", DictToJson(ep)>>,
               <<"config_files", DictToJson(cf)>>,
               <<"routes", DictToJson(rt)>> >>)

\* line 304
entry_points_file == project_path \o <<N_entry_artifact>>

\* The projects the finder is run on: a root directory and, each there or not,
\* main.py, .env, routes.py, routes.js, app/routes.py, router/index.js and
\* cmd/tool/main.go.
ProjectsOf(root) ==
    {(<<root>> :> DirEntry(TRUE)) @@ a @@ b @@ c @@ d @@ e @@ f @@ g :
        a \in {<<>>, <<root, N.main_py>> :> SourceFile(CONTENT.plain, TRUE)},
        b \in {<<>>, <<root, N.dotenv>> :> SourceFile(CONTENT.plain, TRUE)},
        c \in {<<>>,
               <<root, N.routes_py>> :> SourceFile(CONTENT.flask, TRUE),
               <<root, N.routes_py>> :> SourceFile(CONTENT.flask, FALSE),
               <<root, N.routes_py>> :> SourceFile(CONTENT.django, TRUE),
               <<root, N.routes_py>> :> SourceFile(CONTENT.plain, TRUE)},
        d \in {<<>>, <<root, N.routes_js>> :> SourceFile(CONTENT.express, TRUE)},
        e \in {<<>>, (<<root, N.app>> :> DirEntry(TRUE))
                     @@ (<<root, N.app, N.routes_py>> :> SourceFile(CONTENT.django, TRUE))},
        f \in {<<>>, (<<root, N.router>> :> DirEntry(TRUE))
                     @@ (<<root, N.router, N.index_js>> :> SourceFile(CONTENT.express, TRUE))},
        g \in {<<>>, (<<root, N.cmd>> :> DirEntry(TRUE))
                     @@ (<<root, N.cmd, N.tool>> :> DirEntry(TRUE))
                     @@ (<<root, N.cmd, N.tool, N.main_go>> :> SourceFile(CONTENT.plain, TRUE))}}

InitFinder ==
    /\ root_name = N_proj
    /\ fs \in {NoFs} \cup ProjectsOf(root_name)
    /\ pc = "finder_check_path"
    /\ output = <<>>
    /\ exit_code = None
    /\ entry_points = None /\ config_files = None /\ routes = None /\ endpoints_info = None
    /\ max_depth = DefaultMaxDepth /\ include_hidden = FALSE
    /\ structure = None /\ stats = None /\ run = 1 /\ prev = None
    /\ repository = None /\ changes = None

\* lines 236-242
FinderCheckPath ==
    /\ pc = "finder_check_path"
    /\ IF ~exists(fs, project_path)
       THEN /\ output' = Append(output, Printed("Error: Path not found"))
            /\ exit_code' = 1
            /\ pc' = "exited"
       ELSE /\ output' = Append(output, Printed("Finding entry points"))
            /\ pc' = "find_entry_points"
            /\ UNCHANGED exit_code
    /\ UNCHANGED <<fs, root_name, max_depth, include_hidden, structure, stats, run, prev,
                 entry_points, config_files, routes, endpoints_info, repository, changes>>

\* the files of each category a section prints: the first limit of them
ShownFiles(items, limit) ==
    [i \in DOMAIN items |-> [key |-> items[i].key, files |-> Slice(items[i].files, 0, limit)]]

\* lines 245-257 (every file of a category is printed)
FindEntryPoints ==
    /\ pc = "find_entry_points"
    /\ entry_points' = find_entry_points(fs, project_path)
    /\ output' = output \o <<Printed("ENTRY POINTS"),
                              IF entry_points' # <<>> THEN PrintedValue(entry_points')
                              ELSE Printed("No entry points detected")>>
    /\ pc' = "find_config_files"
    /\ UNCHANGED <<fs, root_name, max_depth, include_hidden, structure, stats, run, prev,
                 repository, changes, exit_code,
                   config_files, routes, endpoints_info>>

\* lines 260-274
FindConfigFiles ==
    /\ pc = "find_config_files"
    /\ config_files' = find_config_files(fs, project_path)
    /\ output' = output \o <<Printed("CONFIGURATION FILES"),
                              IF config_files' # <<>> THEN PrintedValue(ShownFiles(config_files', 5))
                              ELSE Printed("No config files detected")>>
    /\ pc' = "find_routes"
    /\ UNCHANGED <<fs, root_name, max_depth, include_hidden, structure, stats, run, prev,
                 repository, changes, exit_code,
                   entry_points, routes, endpoints_info>>

\* lines 277-301
FindRoutes ==
    /\ pc = "find_routes"
    /\ routes' = find_routes(fs, project_path)
    /\ IF routes' # <<>>
       THEN /\ endpoints_info' = analyze_routes(fs, routes'[1].files)
            /\ output' = output \o <<Printed("ROUTE DEFINITIONS"),
                                      PrintedValue(ShownFiles(routes', 10))>>
                                \o (IF endpoints_info'.endpoints # <<>>
                                    THEN <<Printed("Detected API Endpoints"),
                                           PrintedValue(endpoints_info')>>
                                    ELSE <<>>)
       ELSE /\ output' = output \o <<Printed("ROUTE DEFINITIONS"),
                                      Printed("No route definitions detected")>>
            /\ UNCHANGED endpoints_info
    /\ pc' = "save"
    /\ UNCHANGED <<fs, root_name, max_depth, include_hidden, structure, stats, run, prev,
                 repository, changes, exit_code,
                   entry_points, config_files>>

\* lines 304-313; open(output_file, 'w') raises when the root cannot be written to
SaveEntryPoints ==
    /\ pc = "save"
    /\ \E writable \in BOOLEAN :
        IF writable
        THEN /\ fs' = [p \in DOMAIN fs \cup {entry_points_file} |->
                          IF p = entry_points_file
                          THEN [kind |-> "file", lines |-> 0, ok |-> TRUE, target |-> <<>>,
                                json |-> EntryPointsJson(entry_points, config_files, routes)]
                          ELSE fs[p]]
             /\ output' = Append(output, Printed("Entry points saved"))
             /\ exit_code' = 0
             /\ pc' = "done"
        ELSE /\ output' = Append(output, Printed("Traceback"))
             /\ exit_code' = 1
             /\ pc' = "exited"
             /\ UNCHANGED fs
    /\ UNCHANGED <<root_name, max_depth, include_hidden, structure, stats, run, prev,
                 entry_points, config_files, routes, endpoints_info, repository, changes>>

NextFinder ==
    \/ FinderCheckPath
    \/ FindEntryPoints
    \/ FindConfigFiles
    \/ FindRoutes
    \/ SaveEntryPoints

SpecFinder == InitFinder /\ [][NextFinder]_vars

\* every JSON value inside a JSON value, itself first, in document order
RECURSIVE JsonValuesIn(_), JsonValuesInAll(_)
JsonValuesIn(json) ==
    <<json>> \o
    (CASE json.json = "array" -> JsonValuesInAll(json.value)
       [] json.json = "object" ->
              JsonValuesInAll([i \in DOMAIN json.value |-> json.value[i][2]])
       [] OTHER -> <<>>)

JsonValuesInAll(items) ==
    IF items = <<>> THEN <<>>
    ELSE JsonValuesIn(Head(items)) \o JsonValuesInAll(Tail(items))

\* the JSON value is the object {method, path, source} of the endpoint
IsEndpointJson(json, endpoint) ==
    /\ json.json = "object"
    /\ Len(json.value) = 3
    /\ json.value[1][1] = "method" /\ json.value[2][1] = "path" /\ json.value[3][1] = "source"
    /\ \A k \in 1..3 : json.value[k][2].json = "string"
    /\ json.value[1][2].value = endpoint.method
    /\ json.value[2][2].value = endpoint.path
    /\ json.value[3][2].value = endpoint.source

\* C18 (as claimed). The artifact the finder saves contains the entry points,
\* the config files, and the endpoint records {method, path, source} extracted
\* from the route files.
C18_EndpointsSaved_Claimed ==
    pc = "done" =>
        LET saved == fs[entry_points_file].json
            extracted == IF routes = <<>> THEN <<>>
                         ELSE EndpointsOf(fs, routes[1].files)
        IN /\ Member(saved, "entry_points") = DictToJson(entry_points)
           /\ Member(saved, "config_files") = DictToJson(config_files)
           /\ \A i \in DOMAIN extracted :
                  \E k \in DOMAIN JsonValuesIn(saved) :
                      IsEndpointJson(JsonValuesIn(saved)[k], extracted[i])
====
